---- MODULE Spec2Model ----
(***************************************************************************)
(* A model of the action-risk governance layer of the AI browser agent:    *)
(* SecurityLayer.check_action and the components it sequences              *)
(* (ContextAnalyzer, RuleEngine, RiskAssessor, ConfirmationRequester,      *)
(* AuditLogger) together with the action-hash cache of utils.py.           *)
(*                                                                         *)
(* Numbers.  The source computes scores in IEEE doubles.  The model keeps  *)
(* them as exact reduced fractions [n, d]; the weights of the source are   *)
(* decimals with one digit and are held in tenths.  On the inputs the      *)
(* model enumerates the double and the exact value fall on the same side   *)
(* of every threshold the source compares them with (20, 25, 30, 60, 80,   *)
(* 100, 0.3, 0.7).                                                         *)
(*                                                                         *)
(* Texts.  A string is modelled by what the source's string tests find in  *)
(* it: the keywords it contains, the suffixes and prefixes it has, its     *)
(* network location and what the regular expressions match (TextInfo,      *)
(* FindPatternsTable, ReSearchTable).  Cyrillic text is written            *)
(* transliterated with the prefix ru:.                                     *)
(***************************************************************************)
EXTENDS Integers, Sequences, FiniteSets, TLC

(***************************************************************************)
(* Dictionaries: a Python dict is a function on its set of keys.           *)
(***************************************************************************)
EmptyDict == [k \in {} |-> TRUE]

Get(d, k, default) == IF k \in DOMAIN d THEN d[k] ELSE default

\* dict.update(e): the keys of e are added, a key already present is overwritten
Update(d, e) == e @@ d

\* A local variable: the value v, computed once, under the name Op gives it
Bind(v, Op(_)) == CHOOSE r \in {Op(x) : x \in {v}} : TRUE

\* context.get(key, False) used as a condition on a flag
Truthy(d, k) == k \in DOMAIN d /\ d[k] = TRUE

(***************************************************************************)
(* Exact fractions.                                                        *)
(***************************************************************************)
RECURSIVE GCD(_, _)
GCD(a, b) == IF b = 0 THEN a ELSE GCD(b, a % b)

Rat(n, d) == IF n = 0 THEN [n |-> 0, d |-> 1] ELSE [n |-> n \div GCD(n, d), d |-> d \div GCD(n, d)]

Num(i) == [n |-> i, d |-> 1]

RatGt(a, b) == a.n * b.d > b.n * a.d

RatGe(a, b) == a.n * b.d >= b.n * a.d

RatMin(a, b) == IF RatGt(a, b) THEN b ELSE a

RatMax(a, b) == IF RatGt(b, a) THEN b ELSE a

RECURSIVE Pow10(_)
Pow10(k) == IF k = 0 THEN 1 ELSE 10 * Pow10(k - 1)

(***************************************************************************)
(* interfaces.py: the closed enumerations.                                 *)
(***************************************************************************)
ActionType ==
  {"click", "click_button", "click_link", "type", "type_password", "type_email",
   "type_phone", "type_card", "type_personal", "navigate", "navigate_external",
   "navigate_suspicious", "form_submit", "payment", "delete", "social_action",
   "legal_action", "scroll", "analyze"}

RiskLevels == {"low", "medium", "high", "critical"}

\* A member of an Enum is equal only to a member of the same class with the same
\* value.  interfaces.SecurityLevel is the class check_action compares with;
\* config.SecurityLevel is the class of config.security_level.
SecurityLevel(cls, value) == [enum |-> cls, value |-> value]

SecurityLevelValues == {"low", "medium", "high"}

(***************************************************************************)
(* risk_assessor.py                                                        *)
(***************************************************************************)
\* A variant in which a deletion weighs 0.8, like a click on a link
ActionTypeWeightsLightDelete ==
  [a \in ActionType |->
     IF a = "delete" THEN 8
     ELSE IF a \in {"type_password", "type_card", "payment"} THEN 600
     ELSE 10]

\* risk_weights["action_type"], in tenths
ActionTypeWeights ==
  [a \in ActionType |->
     CASE a = "type" -> 5
       [] a = "type_password" -> 800
       [] a = "type_email" -> 20
       [] a = "type_phone" -> 15
       [] a = "type_card" -> 890
       [] a = "type_personal" -> 20
       [] a = "click" -> 10
       [] a = "click_button" -> 10
       [] a = "click_link" -> 8
       [] a = "navigate" -> 2
       [] a = "navigate_external" -> 3
       [] a = "navigate_suspicious" -> 10
       [] a = "form_submit" -> 15
       [] a = "payment" -> 600
       [] a = "delete" -> 250
       [] a = "social_action" -> 15
       [] a = "legal_action" -> 15
       [] a = "scroll" -> 1
       [] a = "analyze" -> 0]

\* risk_weights["context"]: the keys in the dict's order, each with its weight in tenths
ContextWeights ==
  << <<"is_payment_page", 13>>, <<"is_login_page", 11>>, <<"is_registration_page", 12>>,
     <<"is_settings_page", 11>>, <<"is_admin_page", 15>>, <<"is_social_page", 11>>,
     <<"is_search_page", 9>>, <<"is_email_page", 11>>,
     <<"contains_financial", 15>>, <<"contains_passwords", 18>>,
     <<"contains_personal_data", 13>>, <<"contains_contact_info", 11>>,
     <<"is_external_domain", 10>>, <<"is_suspicious_domain", 12>>,
     <<"is_trusted_domain", 9>>, <<"is_https", 9>>, <<"is_http", 11>>,
     <<"is_login_flow", 13>>, <<"is_payment_flow", 18>>, <<"is_registration_flow", 13>>,
     <<"is_form_filling", 12>>,
     <<"is_password_in_login_context", 14>>, <<"is_payment_in_checkout_context", 16>>,
     <<"is_delete_in_settings_context", 17>>, <<"is_social_action_in_context", 11>>,
     <<"confidence_high", 11>>, <<"confidence_low", 9>> >>

ContextWeight(key) ==
  LET i == CHOOSE j \in 1..Len(ContextWeights) : ContextWeights[j][1] = key
  IN  ContextWeights[i][2]

\* A variant of assess_risk's navigation test that takes no kind for navigation
NavigationKeysNone == {}

NavigationKeys == {"navigate", "navigate_external", "navigate_suspicious"}

\* A variant of the restriction that also lets contains_passwords through
NavigationModifiersWithPasswords ==
  {"is_suspicious_domain", "is_http", "is_https", "contains_passwords"}

NavigationModifiers == {"is_suspicious_domain", "is_http", "is_https"}

\* The loop over risk_weights["context"]: the product of the weights that apply (n in
\* tenths to the power k) and the names appended to triggered_rules, in order.
RECURSIVE ContextModifier(_, _, _)
ContextModifier(i, context, is_navigation) ==
  IF i > Len(ContextWeights) THEN [n |-> 1, k |-> 0, rules |-> << >>]
  ELSE LET key == ContextWeights[i][1]
           applies == /\ Truthy(context, key)
                      /\ (is_navigation => key \in NavigationModifiers)
       IN  IF applies
           THEN Bind(ContextModifier(i + 1, context, is_navigation), LAMBDA rest :
                  [n |-> ContextWeights[i][2] * rest.n, k |-> rest.k + 1,
                   rules |-> <<key>> \o rest.rules])
           ELSE ContextModifier(i + 1, context, is_navigation)

\* A variant whose medium level starts at 15
LevelOfMediumFrom15(score) ==
  IF RatGe(score, Num(80)) THEN "critical"
  ELSE IF RatGe(score, Num(60)) THEN "high"
  ELSE IF RatGe(score, Num(15)) THEN "medium"
  ELSE "low"

\* The thresholds that turn a score into a level (the same in the rule engine)
LevelOf(score) ==
  IF RatGe(score, Num(80)) THEN "critical"
  ELSE IF RatGe(score, Num(60)) THEN "high"
  ELSE IF RatGe(score, Num(30)) THEN "medium"
  ELSE "low"

DefaultConfidence == [n |-> 1, d |-> 2]

\* confidence > 0.7 -> confidence_high, confidence < 0.3 -> confidence_low, else 1.0
ConfidenceModifier(confidence) ==
  IF RatGt(confidence, [n |-> 7, d |-> 10]) THEN ContextWeight("confidence_high")
  ELSE IF RatGt([n |-> 3, d |-> 10], confidence) THEN ContextWeight("confidence_low")
  ELSE 10

AssessorRecommendations(risk_level, context, base_risk) ==
  (IF risk_level \in {"high", "critical"} THEN <<"confirm_required">> ELSE << >>) \o
  (IF Truthy(context, "contains_passwords") THEN <<"no_passwords_in_logs">> ELSE << >>) \o
  (IF Truthy(context, "contains_financial") THEN <<"financial_attention">> ELSE << >>) \o
  (IF Truthy(context, "is_suspicious_domain") THEN <<"suspicious_domain_cancel">> ELSE << >>) \o
  (IF ~Get(context, "is_https", TRUE) /\ base_risk > 100 THEN <<"http_insecure">> ELSE << >>)

\* RiskAssessor.assess_risk
AssessRisk(action_type, target, context) ==
  LET base_risk == ActionTypeWeights[action_type]
      is_navigation == action_type \in NavigationKeys
      confidence == Get(context, "confidence", DefaultConfidence)
      confidence_modifier == ConfidenceModifier(confidence)
  IN  Bind(ContextModifier(1, context, is_navigation), LAMBDA modifier :
      \* total_risk * 20 = base/10 * n/10^k * cm/10 * 20
      Bind(Rat(base_risk * modifier.n * confidence_modifier * 2, Pow10(modifier.k + 1)),
           LAMBDA scaled :
      Bind(IF is_navigation THEN RatMin(RatMin(scaled, Num(100)), Num(25))
           ELSE RatMin(scaled, Num(100)), LAMBDA normalized_score :
      Bind(LevelOf(normalized_score), LAMBDA risk_level :
        [score |-> normalized_score,
         level |-> risk_level,
         triggered_rules |-> [i \in 1..Len(modifier.rules) |-> "context_" \o modifier.rules[i]],
         recommendations |-> AssessorRecommendations(risk_level, context, base_risk),
         confidence |-> confidence]))))

(***************************************************************************)
(* Texts (generated from the source's own functions on these strings).     *)
(***************************************************************************)
Targets ==
  {"hello", "mypassword123", "https://example.com", "http://phishing.tk/a.exe",
   "checkout", "user@example.com", "ru:oformit zakaz"}

Urls ==
  {"", "https://shop.example.com/checkout", "https://example.com/login",
   "https://mail.ru/inbox"}

\* sub: the keywords of the source's lists that occur in text.lower();
\* suf: the listed domain suffixes text.lower() ends with; pre: the prefixes
\* text starts with; netloc: urlparse(text).netloc; len: len(text)
TextInfo ==
  "hello" :> [sub |-> {}, suf |-> {},
      pre |-> {}, netloc |-> "", len |-> 5] @@
  "mypassword123" :> [sub |-> {"pass", "password"}, suf |-> {},
      pre |-> {}, netloc |-> "", len |-> 13] @@
  "https://example.com" :> [sub |-> {".", ".com", "http"}, suf |-> {},
      pre |-> {"https://"}, netloc |-> "example.com", len |-> 19] @@
  "http://phishing.tk/a.exe" :> [sub |-> {".", ".exe", "http", "phishing"}, suf |-> {},
      pre |-> {"http://"}, netloc |-> "phishing.tk", len |-> 24] @@
  "checkout" :> [sub |-> {"checkout"}, suf |-> {},
      pre |-> {}, netloc |-> "", len |-> 8] @@
  "user@example.com" :> [sub |-> {".", ".com", "@"}, suf |-> {},
      pre |-> {}, netloc |-> "", len |-> 16] @@
  "ru:oformit zakaz" :> [sub |-> {"ru:zakaz"}, suf |-> {},
      pre |-> {}, netloc |-> "", len |-> 14] @@
  "" :> [sub |-> {}, suf |-> {},
      pre |-> {}, netloc |-> "", len |-> 0] @@
  "https://shop.example.com/checkout" :> [sub |-> {".", ".com", "checkout", "http"}, suf |-> {},
      pre |-> {"https://"}, netloc |-> "shop.example.com", len |-> 33] @@
  "https://example.com/login" :> [sub |-> {".", ".com", "http", "login"}, suf |-> {},
      pre |-> {"https://"}, netloc |-> "example.com", len |-> 25] @@
  "https://mail.ru/inbox" :> [sub |-> {".", ".ru", "http", "mail"}, suf |-> {},
      pre |-> {"https://"}, netloc |-> "mail.ru", len |-> 21] @@
  "example.com" :> [sub |-> {".", ".com"}, suf |-> {},
      pre |-> {}, netloc |-> "", len |-> 11] @@
  "phishing.tk" :> [sub |-> {".", "phishing"}, suf |-> {".tk"},
      pre |-> {}, netloc |-> "", len |-> 11] @@
  "shop.example.com" :> [sub |-> {".", ".com"}, suf |-> {},
      pre |-> {}, netloc |-> "", len |-> 16] @@
  "mail.ru" :> [sub |-> {".", ".ru", "mail"}, suf |-> {"mail.ru"},
      pre |-> {}, netloc |-> "", len |-> 7]

\* any(word in text.lower() for word in words)
ContainsAny(text, words) == TextInfo[text].sub \cap words # {}

\* text.startswith(prefix)
StartsWith(text, prefix) == prefix \in TextInfo[text].pre

\* any(text.lower().endswith(s) for s in suffixes)
EndsWithAny(text, suffixes) == TextInfo[text].suf \cap suffixes # {}

\* PatternMatcher.find_patterns(text, "all"): <<category, pattern name, matches>>
FindPatternsTable ==
  "hello" :> {} @@
  "mypassword123" :> {} @@
  "https://example.com" :> {<<"url_patterns", "https", 1>>, <<"url_patterns", "local_path", 1>>} @@
  "http://phishing.tk/a.exe" :> {<<"url_patterns", "http", 1>>, <<"url_patterns", "local_path", 1>>} @@
  "checkout" :> {} @@
  "user@example.com" :> {<<"personal_data", "email", 1>>} @@
  "ru:oformit zakaz" :> {<<"personal_data", "name", 1>>}

\* re.search(pattern, target, re.IGNORECASE) for the patterns of the default rules,
\* each named re:<rule>: the targets the pattern is found in
ReSearchTable ==
  "re:payment_click" :> {"checkout"} @@
  "re:card_data_input" :> {} @@
  "re:password_input" :> {"mypassword123"} @@
  "re:email_input" :> {"user@example.com"} @@
  "re:external_navigation" :> {"https://example.com", "http://phishing.tk/a.exe", "user@example.com"} @@
  "re:non_https_navigation" :> {"http://phishing.tk/a.exe"} @@
  "re:custom_any" :> Targets

(***************************************************************************)
(* rule_engine.py                                                          *)
(***************************************************************************)
\* A SecurityRule.  pattern "" is no pattern; a regex pattern is named "re:<rule>",
\* a literal pattern is the keyword itself; action_type and condition "None" are
\* None; a condition is lambda ctx: ctx.get(<key>, False); weight is in tenths.
SecurityRule(name, pattern, action_type, risk_level, regex, condition, weight) ==
  [name |-> name, pattern |-> pattern, action_type |-> action_type,
   risk_level |-> risk_level, regex |-> regex, condition |-> condition,
   weight |-> weight]

\* RuleEngine._load_default_rules
DefaultRules ==
  << SecurityRule("payment_click", "re:payment_click", "click_button", "high", TRUE, "None", 20),
     SecurityRule("card_data_input", "re:card_data_input", "type", "critical", TRUE, "None", 30),
     SecurityRule("password_input", "re:password_input", "type", "critical", TRUE, "None", 30),
     SecurityRule("email_input", "re:email_input", "type", "medium", TRUE, "None", 15),
     SecurityRule("external_navigation", "re:external_navigation", "navigate", "low", TRUE, "None", 10),
     SecurityRule("non_https_navigation", "re:non_https_navigation", "navigate", "medium", TRUE, "None", 15),
     SecurityRule("context_login_flow_password", "", "type_password", "high", FALSE, "is_login_page", 25),
     SecurityRule("context_payment_flow", "", "payment", "critical", FALSE, "is_payment_page", 30) >>

\* Patterns re cannot compile, such as "(" or "[a-": re.search raises re.error
MalformedPatterns == {"re:malformed"}

\* re.search(rule.pattern, target, re.IGNORECASE), where it returns
ReSearch(pattern, target) ==
  pattern \notin MalformedPatterns /\ target \in ReSearchTable[pattern]

\* The rule reaches re.search (it is not skipped by its kind, by navigation or by
\* its condition) and re.search raises on its pattern
RuleRaises(rule, action_type, target, context) ==
  /\ ~(rule.action_type # "None" /\ rule.action_type # action_type)
  /\ action_type \notin {"navigate", "navigate_external"}
  /\ ~(rule.condition # "None" /\ ~Truthy(context, rule.condition))
  /\ rule.pattern # "" /\ rule.regex
  /\ rule.pattern \in MalformedPatterns

\* A variant of the loop body that does not skip the rules for navigation
RuleTriggersForNavigation(rule, action_type, target, context) ==
  /\ ~(rule.action_type # "None" /\ rule.action_type # action_type)
  /\ ~(rule.condition # "None" /\ ~Truthy(context, rule.condition))
  /\ IF rule.pattern # ""
     THEN IF rule.regex
          THEN ReSearch(rule.pattern, target)
          ELSE ContainsAny(target, {rule.pattern})
     ELSE rule.condition # "None"

\* Does the rule trigger?  (the body of the loop over self.rules)
RuleTriggers(rule, action_type, target, context) ==
  /\ ~(rule.action_type # "None" /\ rule.action_type # action_type)
  /\ action_type \notin {"navigate", "navigate_external"}
  /\ ~(rule.condition # "None" /\ ~Truthy(context, rule.condition))
  /\ IF rule.pattern # ""
     THEN IF rule.regex
          THEN ReSearch(rule.pattern, target)
          ELSE ContainsAny(target, {rule.pattern})
     ELSE rule.condition # "None"

RECURSIVE TriggeredRules(_, _, _, _)
TriggeredRules(rules, action_type, target, context) ==
  IF rules = << >> THEN << >>
  ELSE (IF RuleTriggers(Head(rules), action_type, target, context)
        THEN <<Head(rules)>> ELSE << >>)
       \o TriggeredRules(Tail(rules), action_type, target, context)

\* A variant of the multiplier table in which a critical rule counts one and a half
RiskLevelMultiplierBoosted(risk_level) ==
  CASE risk_level = "low" -> 3
    [] risk_level = "medium" -> 6
    [] risk_level = "high" -> 9
    [] risk_level = "critical" -> 15
    [] OTHER -> 5

\* {low: 0.3, medium: 0.6, high: 0.9, critical: 1.0}.get(rule.risk_level, 0.5), in tenths
RiskLevelMultiplier(risk_level) ==
  CASE risk_level = "low" -> 3
    [] risk_level = "medium" -> 6
    [] risk_level = "high" -> 9
    [] risk_level = "critical" -> 10
    [] OTHER -> 5

RECURSIVE SumRiskScore(_)
SumRiskScore(triggered) ==
  IF triggered = << >> THEN 0
  ELSE Head(triggered).weight * RiskLevelMultiplier(Head(triggered).risk_level)
       + SumRiskScore(Tail(triggered))

\* A variant of max_possible that counts the triggered rules, each as weight 1.0
SumMaxPossibleUnweighted(triggered) == 10 * Len(triggered)

RECURSIVE SumMaxPossible(_)
SumMaxPossible(triggered) ==
  IF triggered = << >> THEN 0 ELSE Head(triggered).weight + SumMaxPossible(Tail(triggered))

\* RuleEngine.evaluate_rules: the triggered rules and the rule assessment
EvaluateRules(rule_list, action_type, target, context) ==
  Bind(TriggeredRules(rule_list, action_type, target, context), LAMBDA triggered_rules :
    LET risk_score == SumRiskScore(triggered_rules)
        max_possible == SumMaxPossible(triggered_rules)
        is_nav == action_type \in {"navigate", "navigate_external"}
    IN  \* (risk_score / max_possible * 100) with risk_score in hundredths, max in tenths
        Bind(IF max_possible > 0 THEN Rat(risk_score * 10, max_possible) ELSE Num(0),
             LAMBDA computed :
          [triggered |-> triggered_rules,
           \* nothing in the loop catches re.error: it leaves evaluate_rules
           raised |-> \E i \in 1..Len(rule_list) :
                        RuleRaises(rule_list[i], action_type, target, context),
           risk |-> [score |-> IF is_nav THEN Num(5) ELSE computed,
                     level |-> IF is_nav THEN "low" ELSE LevelOf(computed),
                     triggered_rules |->
                       [i \in 1..Len(triggered_rules) |-> triggered_rules[i].name],
                     recommendations |-> << >>,
                     confidence |-> Get(context, "confidence", DefaultConfidence)]]))

(***************************************************************************)
(* pattern_matcher.py and context_analyzer.py                              *)
(***************************************************************************)
RECURSIVE SumMatches(_)
SumMatches(found) ==
  IF found = {} THEN 0
  ELSE LET p == CHOOSE x \in found : TRUE IN p[3] + SumMatches(found \ {p})

\* PatternMatcher.extract_sensitive_data: the patterns found, their number and the
\* derived flags (the masked text and the metadata are not read by any caller)
ExtractSensitiveData(text) ==
  LET results == FindPatternsTable[text]
      cats == {p[1] : p \in results}
      personal == {p[2] : p \in {x \in results : x[1] = "personal_data"}}
  IN  [patterns |-> results,
       total_patterns |-> SumMatches(results),
       context |->
         [contains_passwords |-> \E p \in results : p[1] = "sensitive_keywords" /\ p[2] = "password",
          contains_financial |-> "financial_data" \in cats,
          contains_contact_info |-> personal \cap {"email", "phone_ru", "phone_international"} # {},
          contains_personal_data |-> "personal_data" \in cats,
          contains_dangerous |-> "dangerous_patterns" \in cats]]

\* ContextAnalyzer._load_keyword_patterns, in the dict's order
KeywordCategories ==
  <<"payment", "login", "registration", "social", "delete", "download", "legal",
    "contact", "search", "navigation", "settings">>

KeywordPatterns ==
  "payment" :> {"ru:kupit", "ru:oplatit", "ru:cena", "ru:stoimost", "ru:chek", "checkout", "buy", "purchase", "cart", "ru:korzin", "ru:oplat"} @@
  "login" :> {"ru:vojti", "ru:vhod", "ru:login", "sign in", "log in", "ru:avtorizaciya", "account", "ru:akkaunt"} @@
  "registration" :> {"ru:registraciya", "ru:zaregistrirovatsya", "sign up", "register", "ru:sozdat akkaunt"} @@
  "social" :> {"ru:post", "ru:publikaciya", "ru:podelitsya", "share", "comment", "ru:kommentarij", "like", "ru:lajk", "ru:repost"} @@
  "delete" :> {"ru:udalit", "ru:udalenie", "ru:steret", "ru:ochistit", "delete", "remove", "clear", "ru:otmenit", "ru:otmena"} @@
  "download" :> {"ru:skachat", "ru:zagruzit", "download", "upload", "ru:fajl", "ru:dokument"} @@
  "legal" :> {"ru:soglashenie", "ru:usloviya", "ru:pravila", "terms", "agreement", "policy", "ru:politika"} @@
  "contact" :> {"ru:kontakty", "ru:obratnaya svyaz", "contact", "support", "ru:podderzhka"} @@
  "search" :> {"ru:poisk", "ru:najti", "search", "find", "ru:iskat"} @@
  "navigation" :> {"ru:glavnaya", "home", "ru:nazad", "back", "ru:vpered", "forward", "ru:menyu", "menu"} @@
  "settings" :> {"ru:nastrojki", "settings", "ru:profil", "profile", "ru:akkaunt", "account"}

\* ContextAnalyzer._load_domain_categories, in the dict's order
DomainCategoryOrder == <<"social", "shopping", "banking", "email", "government", "search">>

DomainCategories ==
  "social" :> {"facebook.com", "twitter.com", "instagram.com", "vk.com", "tiktok.com", "linkedin.com"} @@
  "shopping" :> {"amazon.com", "aliexpress.com", "ebay.com", "wildberries.ru", "ozon.ru", "yandex.market"} @@
  "banking" :> {"sberbank.ru", "tinkoff.ru", "alfabank.ru", "vtb.ru", "raiffeisen.ru", "gazprombank.ru"} @@
  "email" :> {"gmail.com", "mail.ru", "yandex.ru", "outlook.com", "yahoo.com", "rambler.ru"} @@
  "government" :> {"gov.ru", "gosuslugi.ru", "nalog.ru", "pfr.gov.ru", "mkgu.mos.ru"} @@
  "search" :> {"google.com", "yandex.ru", "bing.com", "duckduckgo.com"}

PageTypeWords ==
  "is_login_page" :> {"login", "signin", "auth", "ru:vhod", "ru:vojti", "account"} @@
  "is_payment_page" :> {"checkout", "payment", "pay", "cart", "ru:korzin", "ru:oplat", "order"} @@
  "is_registration_page" :> {"register", "signup", "ru:registraciya", "create.account"} @@
  "is_settings_page" :> {"settings", "ru:nastrojki", "profile", "ru:profil", "account"} @@
  "is_admin_page" :> {"admin", "ru:admin", "dashboard", "ru:panel", "control"} @@
  "is_social_page" :> {"facebook", "twitter", "vk", "instagram", "tiktok", "social"} @@
  "is_search_page" :> {"search", "ru:poisk", "google", "yandex", "bing"} @@
  "is_email_page" :> {"mail", "email", "ru:pochta", "gmail", "outlook"}

\* ContextAnalyzer._analyze_page_type (called with a non-empty url)
AnalyzePageType(url) ==
  [k \in DOMAIN PageTypeWords |-> ContainsAny(url, PageTypeWords[k])]

\* utils.extract_domain
ExtractDomain(url) == TextInfo[url].netloc

SuspiciousTlds == {".tk", ".ml", ".ga", ".cf", ".gq", ".xyz", ".top", ".club"}

SuspiciousKeywords == {"phishing", "malware", "scam", "hack", "exploit"}

\* utils.is_suspicious_domain
IsSuspiciousDomain(domain) ==
  EndsWithAny(domain, SuspiciousTlds) \/ ContainsAny(domain, SuspiciousKeywords)

\* utils.is_external_domain
IsExternalDomain(current_url, target_url) ==
  LET current_domain == ExtractDomain(current_url)
      target_domain == ExtractDomain(target_url)
  IN  IF current_domain = "" \/ target_domain = "" THEN FALSE
      ELSE target_domain # current_domain

RECURSIVE DomainCategory(_, _)
DomainCategory(i, domain) ==
  IF i > Len(DomainCategoryOrder) THEN "other"
  ELSE IF EndsWithAny(domain, DomainCategories[DomainCategoryOrder[i]])
       THEN DomainCategoryOrder[i]
       ELSE DomainCategory(i + 1, domain)

\* ContextAnalyzer._analyze_domain
AnalyzeDomain(url) ==
  LET domain == ExtractDomain(url)
      domain_category == DomainCategory(1, domain)
  IN  IF domain = "" THEN EmptyDict
      ELSE "domain" :> domain @@
           "domain_category" :> domain_category @@
           "is_suspicious_domain" :> IsSuspiciousDomain(domain) @@
           "is_trusted_domain" :> (domain_category \in {"banking", "government", "email"})

\* ContextAnalyzer._analyze_navigation_url
AnalyzeNavigationUrl(target_url, current_url) ==
  "is_external_domain" :> IsExternalDomain(current_url, target_url) @@
  "is_https" :> StartsWith(target_url, "https://") @@
  "is_http" :> StartsWith(target_url, "http://") @@
  "is_suspicious_url" :> IsSuspiciousDomain(ExtractDomain(target_url))

\* ContextAnalyzer._analyze_keywords
AnalyzeKeywords(text) ==
  IF text = "" THEN EmptyDict
  ELSE LET hit == {i \in 1..Len(KeywordCategories) :
                     ContainsAny(text, KeywordPatterns[KeywordCategories[i]])}
       IN  [k \in {"contains_" \o KeywordCategories[i] : i \in hit} |-> TRUE]

\* The first five characters of each ActionType value, for a.startswith("TYPE_")
ValuePrefix ==
  [a \in ActionType |->
     CASE a \in {"type_password", "type_email", "type_phone", "type_card", "type_personal"} -> "type_"
       [] a \in {"click", "click_button", "click_link"} -> "click"
       [] a \in {"navigate", "navigate_external", "navigate_suspicious"} -> "navig"
       [] a = "type" -> "type"
       [] a = "form_submit" -> "form_"
       [] a = "payment" -> "payme"
       [] a = "delete" -> "delet"
       [] a = "social_action" -> "socia"
       [] a = "legal_action" -> "legal"
       [] a = "scroll" -> "scrol"
       [] a = "analyze" -> "analy"]

\* ContextAnalyzer._analyze_sequence; a history entry is [action_type, target]
AnalyzeSequence(history, current_action, target) ==
  IF history = << >> THEN EmptyDict
  ELSE LET recent == IF Len(history) >= 5
                     THEN SubSeq(history, Len(history) - 4, Len(history)) ELSE history
           action_types == [i \in 1..Len(recent) |-> recent[i].action_type]
           targets == [i \in 1..Len(recent) |-> recent[i].target]
           anyTarget(word) == \E i \in 1..Len(targets) : ContainsAny(targets[i], {word})
       IN  "is_login_flow" :> (/\ \E i \in 1..Len(recent) : action_types[i] = "type_email"
                               /\ \E i \in 1..Len(recent) : action_types[i] = "type_password") @@
           "is_payment_flow" :> (anyTarget("payment") \/ anyTarget("ru:kupit") \/ anyTarget("ru:oplatit")) @@
           "is_registration_flow" :> (anyTarget("ru:registraciya") \/ anyTarget("register")) @@
           "is_form_filling" :>
              (Cardinality({i \in 1..Len(recent) : ValuePrefix[action_types[i]] = "TYPE_"}) >= 2) @@
           "recent_action_types" :> action_types @@
           "recent_targets" :> SubSeq(targets, 1, IF Len(targets) < 3 THEN Len(targets) ELSE 3)

\* ContextAnalyzer._analyze_action_context
AnalyzeActionContext(action_type, target, context) ==
  (IF action_type = "type_password" /\ Truthy(context, "is_login_page")
   THEN "is_password_in_login_context" :> TRUE ELSE EmptyDict) @@
  (IF action_type = "payment" /\ Truthy(context, "is_payment_page")
   THEN "is_payment_in_checkout_context" :> TRUE ELSE EmptyDict) @@
  (IF action_type = "delete" /\ Truthy(context, "is_settings_page")
   THEN "is_delete_in_settings_context" :> TRUE ELSE EmptyDict) @@
  (IF action_type = "social_action" /\ Truthy(context, "is_social_page")
   THEN "is_social_action_in_context" :> TRUE ELSE EmptyDict)

RECURSIVE SumSeq(_)
SumSeq(s) == IF s = << >> THEN 0 ELSE Head(s) + SumSeq(Tail(s))

\* ContextAnalyzer._calculate_confidence; the factors are in hundredths
CalculateConfidence(context) ==
  LET patterns == Get(context, "detected_patterns", {})
      total_patterns == SumMatches(patterns)
      confidence_factors ==
        (IF patterns # {}
         THEN <<IF total_patterns * 20 < 100 THEN total_patterns * 20 ELSE 100>> ELSE << >>) \o
        (IF Truthy(context, "is_login_page") /\ Truthy(context, "contains_login") THEN <<80>> ELSE << >>) \o
        (IF Truthy(context, "is_payment_page") /\ Truthy(context, "contains_payment") THEN <<90>> ELSE << >>) \o
        (IF Truthy(context, "is_login_flow") THEN <<85>> ELSE << >>) \o
        (IF Truthy(context, "is_payment_flow") THEN <<95>> ELSE << >>) \o
        (IF Truthy(context, "is_trusted_domain") THEN <<70>> ELSE << >>)
  IN  IF confidence_factors # << >>
      THEN Rat(SumSeq(confidence_factors), 100 * Len(confidence_factors))
      ELSE [n |-> 3, d |-> 10]

\* ContextAnalyzer._generate_recommendations
GenerateRecommendations(context) ==
  (IF Truthy(context, "contains_passwords") THEN <<"password_input_detected">> ELSE << >>) \o
  (IF Truthy(context, "contains_financial") THEN <<"financial_data_detected">> ELSE << >>) \o
  (IF Truthy(context, "is_external_domain") THEN <<"external_domain">> ELSE << >>) \o
  (IF Truthy(context, "is_suspicious_domain") THEN <<"suspicious_domain">> ELSE << >>) \o
  (IF ~Get(context, "is_https", TRUE) /\ Truthy(context, "contains_payment")
   THEN <<"payment_over_http">> ELSE << >>)

\* ContextAnalyzer.analyze
Analyze(action_type, target, raw_context) ==
  Bind(ExtractSensitiveData(target), LAMBDA pattern_analysis :
  Bind(Update(raw_context, "pattern_analysis" :> pattern_analysis @@
                           "detected_patterns" :> pattern_analysis.patterns), LAMBDA c1 :
  Bind(Get(c1, "current_url", ""), LAMBDA current_url :
  Bind(IF current_url # ""
       THEN Update(Update(c1, AnalyzePageType(current_url)), AnalyzeDomain(current_url))
       ELSE c1, LAMBDA c3 :
  Bind(Get(c3, "target_url", target), LAMBDA target_url :
  Bind(IF action_type \in {"navigate", "navigate_external", "navigate_suspicious"}
          /\ target_url # ""
       THEN Update(c3, AnalyzeNavigationUrl(target_url, current_url)) ELSE c3, LAMBDA c4 :
  Bind(Update(c4, AnalyzeKeywords(target)), LAMBDA c5 :
  Bind(IF "recent_history" \in DOMAIN c5
       THEN Update(c5, AnalyzeSequence(c5["recent_history"], action_type, target))
       ELSE c5, LAMBDA c6 :
  Bind(Update(c6, AnalyzeActionContext(action_type, target, c6)), LAMBDA c7 :
  Bind(Update(c7, "confidence" :> CalculateConfidence(c7)), LAMBDA c8 :
    Update(c8, "recommendations" :> GenerateRecommendations(c8))))))))))))

(***************************************************************************)
(* utils.py: the action hash and its module-level cache.                   *)
(***************************************************************************)
\* _cache_ttl, in minutes
cache_ttl == 10

\* The two md5 digests, taken to be injective: the hash of an action is the tuple
\* the digest is computed from (the context stands for the digest of its JSON dump).
Digest(action_type, target, context) ==
  <<action_type, target, Get(context, "current_url", ""), context>>

CacheKey(action_type, target, context) ==
  <<action_type, target, Get(context, "current_url", "")>>

\* _clean_hash_cache
CleanHashCache(cache, time) ==
  [k \in {x \in DOMAIN cache : ~(time - cache[x].timestamp > cache_ttl)} |-> cache[k]]

\* generate_action_hash at clock value time: the hash returned and the cache left
GenerateActionHash(cache, time, action_type, target, context) ==
  LET cache_key == CacheKey(action_type, target, context)
      action_hash == Digest(action_type, target, context)
  IN  IF cache_key \in DOMAIN cache /\ time - cache[cache_key].timestamp < cache_ttl
      THEN [hash |-> cache[cache_key].hash, cache |-> cache]
      ELSE [hash |-> action_hash,
            cache |-> CleanHashCache(
                        Update(cache, cache_key :> [hash |-> action_hash, timestamp |-> time]),
                        time)]

(***************************************************************************)
(* audit_logger.py                                                         *)
(***************************************************************************)
\* Python's s[-m:] for m >= 0: the last m elements, and all of s when m = 0 (-0 is 0)
LastSlice(s, m) ==
  IF m = 0 \/ m >= Len(s) THEN s ELSE SubSeq(s, Len(s) - m + 1, Len(s))

InitialStats ==
  [total_events |-> 0, blocked_actions |-> 0, confirmed_actions |-> 0,
   critical_events |-> 0, high_events |-> 0, medium_events |-> 0, low_events |-> 0]

\* The counter updates of AuditLogger.log_event
UpdateStats(st, event) ==
  LET s1 == [st EXCEPT !.total_events = @ + 1]
      s2 == IF event.risk_assessment.level = "critical"
              THEN [s1 EXCEPT !.critical_events = @ + 1]
            ELSE IF event.risk_assessment.level = "high"
              THEN [s1 EXCEPT !.high_events = @ + 1]
            ELSE IF event.risk_assessment.level = "medium"
              THEN [s1 EXCEPT !.medium_events = @ + 1]
            ELSE [s1 EXCEPT !.low_events = @ + 1]
  IN  IF ~event.confirmed
      THEN [s2 EXCEPT !.blocked_actions = @ + 1]
      ELSE [s2 EXCEPT !.confirmed_actions = @ + 1]

\* The counters computed over a list of events
CountersOf(evs) ==
  LET count(P(_)) == Cardinality({i \in 1..Len(evs) : P(evs[i])})
  IN  [total_events |-> Len(evs),
       blocked_actions |-> count(LAMBDA e : ~e.confirmed),
       confirmed_actions |-> count(LAMBDA e : e.confirmed),
       critical_events |-> count(LAMBDA e : e.risk_assessment.level = "critical"),
       high_events |-> count(LAMBDA e : e.risk_assessment.level = "high"),
       medium_events |-> count(LAMBDA e : e.risk_assessment.level = "medium"),
       low_events |-> count(LAMBDA e : e.risk_assessment.level = "low")]

\* A variant of log_event that recomputes the counters from the events it retains
LogEventRecounting(evs, st, cap, event) ==
  LET appended == Append(evs, event)
      kept == IF Len(appended) > cap THEN LastSlice(appended, cap) ELSE appended
  IN  [events |-> kept, stats |-> CountersOf(kept)]

\* AuditLogger.log_event: the buffer and the counters after the call
LogEvent(evs, st, cap, event) ==
  LET appended == Append(evs, event)
  IN  [events |-> IF Len(appended) > cap THEN LastSlice(appended, cap) ELSE appended,
       stats |-> UpdateStats(st, event)]

\* target[:n]
Truncate(text, n) == IF TextInfo[text].len <= n THEN text ELSE "cut:" \o text

\* A variant of log_action that records a decision of the user
AuditEventUserDecision(action_type, target, risk_assessment, allowed) ==
  [action |-> action_type,
   target |-> Truncate(target, 200),
   risk_assessment |-> risk_assessment,
   confirmed |-> allowed,
   user_decision |-> IF allowed THEN "approved" ELSE "blocked"]

\* The SecurityEvent built by AuditLogger.log_action (the timestamp and the context
\* copy are carried but read by no operation of the model)
AuditEvent(action_type, target, risk_assessment, allowed) ==
  [action |-> action_type,
   target |-> Truncate(target, 200),
   risk_assessment |-> risk_assessment,
   confirmed |-> allowed,
   user_decision |-> IF allowed THEN "auto_allowed" ELSE "auto_blocked"]

\* get_report's default limit
DefaultLimit == 100

\* AuditLogger.get_report(limit): the summary, the risk distribution, the numbers of
\* recent events per action kind and the recent events
GetReport(evs, st, limit) ==
  LET recent_events == IF evs # << >> THEN LastSlice(evs, limit) ELSE << >>
      kinds == {recent_events[i].action : i \in 1..Len(recent_events)}
  IN  [summary |->
         [total_events |-> Len(evs),
          recent_events |-> Len(recent_events),
          blocked_actions |-> st.blocked_actions,
          confirmed_actions |-> st.confirmed_actions,
          block_rate |-> IF st.total_events > 0
                         THEN Rat(st.blocked_actions, st.total_events) ELSE Num(0)],
       risk_distribution |->
         [critical |-> st.critical_events, high |-> st.high_events,
          medium |-> st.medium_events, low |-> st.low_events],
       action_statistics |->
         [k \in kinds |->
            Cardinality({i \in 1..Len(recent_events) : recent_events[i].action = k})],
       recent_events |-> recent_events]

(***************************************************************************)
(* confirmation_requester.py                                               *)
(***************************************************************************)
\* What input_provider.get_input gives: a line typed by the user, or an exception
Lines == {"y", "n", "a", "d", "q", " Y ", "maybe", ""}

InputErrors == {"KeyboardInterrupt", "EOFError", "Exception"}

\* str(response_raw).lower().strip() if response_raw else ""
Normalize(line) == IF line = " Y " THEN "y" ELSE line

\* A variant of _get_user_decision that takes an unknown choice for a yes
UserDecisionUnknownAllows(input) ==
  IF input \in InputErrors
  THEN [kind |-> "return", allowed |-> FALSE,
        reason |-> IF input = "Exception" THEN "input_error" ELSE "interrupted"]
  ELSE CASE Normalize(input) = "d" -> [kind |-> "again", allowed |-> FALSE, reason |-> "None"]
         [] Normalize(input) = "a" -> [kind |-> "return", allowed |-> TRUE, reason |-> "approved_all"]
         [] Normalize(input) = "n" -> [kind |-> "return", allowed |-> FALSE, reason |-> "blocked"]
         [] Normalize(input) = "q" -> [kind |-> "return", allowed |-> FALSE, reason |-> "task_aborted"]
         [] OTHER -> [kind |-> "return", allowed |-> TRUE, reason |-> "approved"]

\* One pass of the loop of _get_user_decision on one read: "again" is the next
\* iteration (continue, or the fall through after an unknown choice)
UserDecision(input) ==
  IF input \in InputErrors
  THEN IF input \in {"KeyboardInterrupt", "EOFError"}
       THEN [kind |-> "return", allowed |-> FALSE, reason |-> "interrupted"]
       ELSE [kind |-> "return", allowed |-> FALSE, reason |-> "input_error"]
  ELSE LET response == Normalize(input)
       IN  CASE response = "d" -> [kind |-> "again", allowed |-> FALSE, reason |-> "None"]
             [] response = "y" -> [kind |-> "return", allowed |-> TRUE, reason |-> "approved"]
             [] response = "a" -> [kind |-> "return", allowed |-> TRUE, reason |-> "approved_all"]
             [] response = "n" -> [kind |-> "return", allowed |-> FALSE, reason |-> "blocked"]
             [] response = "q" -> [kind |-> "return", allowed |-> FALSE, reason |-> "task_aborted"]
             [] OTHER -> [kind |-> "again", allowed |-> FALSE, reason |-> "None"]

(***************************************************************************)
(* security_layer.py: the state of one SecurityLayer and of what it owns.  *)
(***************************************************************************)
VARIABLES
  security_level,          \* SecurityLayer.security_level
  rules,                   \* RuleEngine.rules
  confirmed_actions,       \* SecurityLayer.confirmed_actions (the approval memo)
  auto_confirm_hashes,     \* ConfirmationRequester.auto_confirm_hashes
  confirmation_callbacks,  \* SecurityLayer.confirmation_callbacks
  action_history,          \* SecurityLayer.action_history
  events,                  \* AuditLogger.events
  stats,                   \* AuditLogger.stats
  max_events,              \* AuditLogger.max_events
  action_hash_cache,       \* utils._action_hash_cache
  now,                     \* datetime.now(), in minutes
  calls,                   \* the check_action calls in flight or returned, per caller
  logged,                  \* history: every event ever passed to log_event
  approved                 \* history: the actions answered with allow-all

vars == <<security_level, rules, confirmed_actions, auto_confirm_hashes,
          confirmation_callbacks, action_history, events, stats, max_events,
          action_hash_cache, now, calls, logged, approved>>

Callers == {1, 2}

\* A variant of the fusion that takes the level of the smaller score
FuseLevelOfSmaller(rule_risk, risk_assessment) ==
  [score |-> IF RatGt(risk_assessment.score, rule_risk.score)
             THEN risk_assessment.score ELSE rule_risk.score,
   level |-> IF RatGt(rule_risk.score, risk_assessment.score)
             THEN risk_assessment.level ELSE rule_risk.level,
   triggered_rules |-> {rule_risk.triggered_rules[i] : i \in 1..Len(rule_risk.triggered_rules)}
                       \cup {risk_assessment.triggered_rules[i] :
                               i \in 1..Len(risk_assessment.triggered_rules)},
   recommendations |-> risk_assessment.recommendations,
   confidence |-> risk_assessment.confidence]

\* The fused assessment of check_action (step 6)
Fuse(rule_risk, risk_assessment) ==
  [score |-> IF RatGt(risk_assessment.score, rule_risk.score)
             THEN risk_assessment.score ELSE rule_risk.score,
   level |-> IF RatGt(rule_risk.score, risk_assessment.score)
             THEN rule_risk.level ELSE risk_assessment.level,
   triggered_rules |-> {rule_risk.triggered_rules[i] : i \in 1..Len(rule_risk.triggered_rules)}
                       \cup {risk_assessment.triggered_rules[i] :
                               i \in 1..Len(risk_assessment.triggered_rules)},
   recommendations |-> risk_assessment.recommendations,
   confidence |-> risk_assessment.confidence]

\* The assessment returned for a memoized action
MemoAssessment ==
  [score |-> Num(0), level |-> "low", triggered_rules |-> {"previously_confirmed"},
   recommendations |-> << >>, confidence |-> Num(1)]

\* No assessment: the sub-assessments of a call that did not score its action
NoAssessment ==
  [score |-> Num(0), level |-> "low", triggered_rules |-> << >>,
   recommendations |-> << >>, confidence |-> Num(1)]

\* The branch of step 8 of check_action, chosen by the enforcement level
LevelBranch(level, action_type, risk) ==
  IF level = SecurityLevel("interfaces", "low") THEN "low"
  ELSE IF level = SecurityLevel("interfaces", "medium")
       THEN IF action_type = "navigate_suspicious" /\ risk.level \in {"medium", "high", "critical"}
            THEN "medium_suspicious" ELSE "medium"
  ELSE IF level = SecurityLevel("interfaces", "high")
       THEN IF risk.level \in {"high", "critical"} THEN "high_block"
            ELSE IF risk.level = "medium" THEN "high_medium"
            ELSE "high_low"
  ELSE "default"

\* A variant of check_action without step 7
BranchWithoutThreshold(level, action_type, risk) == LevelBranch(level, action_type, risk)

\* The branch check_action takes for a fused assessment (steps 7 and 8)
Branch(level, action_type, risk) ==
  IF RatGt(risk.score, Num(20)) THEN "threshold" ELSE LevelBranch(level, action_type, risk)

\* The branches that call confirmation_requester.request_confirmation
GateBranches == {"threshold", "medium_suspicious", "high_medium"}

\* A variant in which the threshold branch builds no event and notifies nobody
NotifyingBranchesSuspiciousOnly == {"medium_suspicious"}

\* Of these, the ones that memoize an allow-all and notify the callbacks
NotifyingBranches == {"threshold", "medium_suspicious"}

\* SecurityLayer._add_to_history
AddToHistory(history, entry) ==
  LET h == Append(history, entry)
  IN  IF Len(h) > 100 THEN SubSeq(h, Len(h) - 99, Len(h)) ELSE h

\* What awaiting a callback does: it returns, raises an Exception (an ordinary
\* failure), or raises a BaseException that is no Exception (KeyboardInterrupt,
\* SystemExit, asyncio.CancelledError)
CallbackOutcomes == {"ok", "Exception", "BaseException"}

\* except Exception as e
CaughtByExceptException(raised) == raised = "Exception"

\* A variant of _notify_callbacks without the try: the first failure leaves the loop
RECURSIVE NotifyCallbacksUnguarded(_, _)
NotifyCallbacksUnguarded(callbacks, outcomes) ==
  IF callbacks = << >> THEN [invoked |-> << >>, caught |-> 0, raised |-> FALSE]
  ELSE IF Head(outcomes) = "ok"
  THEN LET rest == NotifyCallbacksUnguarded(Tail(callbacks), Tail(outcomes))
       IN  [rest EXCEPT !.invoked = <<Head(callbacks)>> \o @]
  ELSE [invoked |-> <<Head(callbacks)>>, caught |-> 0, raised |-> TRUE]

\* SecurityLayer._notify_callbacks: the callbacks awaited, in order, the number of
\* failures caught and printed, and whether an exception left the loop
RECURSIVE NotifyCallbacks(_, _)
NotifyCallbacks(callbacks, outcomes) ==
  IF callbacks = << >> THEN [invoked |-> << >>, caught |-> 0, raised |-> FALSE]
  ELSE IF Head(outcomes) = "ok" \/ CaughtByExceptException(Head(outcomes))
  THEN LET rest == NotifyCallbacks(Tail(callbacks), Tail(outcomes))
       IN  [invoked |-> <<Head(callbacks)>> \o rest.invoked,
            caught |-> rest.caught + (IF Head(outcomes) = "ok" THEN 0 ELSE 1),
            raised |-> rest.raised]
  ELSE [invoked |-> <<Head(callbacks)>>, caught |-> 0, raised |-> TRUE]

\* The sequences of outcomes of awaiting each of the callbacks once
RECURSIVE OutcomesOf(_)
OutcomesOf(callbacks) ==
  IF callbacks = << >> THEN {<< >>}
  ELSE {<<o>> \o rest : o \in CallbackOutcomes, rest \in OutcomesOf(Tail(callbacks))}

\* A caller that has not called check_action yet
IdleCall ==
  [pc |-> "idle", action_type |-> "None", target |-> "", raw_context |-> EmptyDict,
   context |-> EmptyDict, action_hash |-> << >>, was_approved |-> FALSE,
   scored |-> FALSE, rule_risk |-> NoAssessment, assessor_risk |-> NoAssessment,
   triggered |-> << >>, risk |-> MemoAssessment, branch |-> "None",
   gate_calls |-> 0, auto_confirmed |-> FALSE, prompts |-> 0, malformed |-> 0,
   last_input |-> "None", allowed |-> FALSE, reason |-> "None", memoized |-> FALSE,
   logged |-> 0, callbacks |-> << >>, notified |-> << >>, caught |-> 0,
   outcomes |-> << >>, user_decision |-> "None", registered |-> << >>,
   seen_total |-> 0]

\* A variant that keeps only the latest approval
MemoizeLatest(memo, action_hash) == {action_hash}

\* self.confirmed_actions.add(action_hash)
Memoize(memo, action_hash) == memo \cup {action_hash}

\* The end of a check_action call that has its decision: memoization, audit log,
\* callbacks and return, as the call's branch does them.
Finish(c, call, allowed, reason, outcomes) ==
  LET memoize == call.branch \in NotifyingBranches /\ allowed /\ reason = "approved_all"
      event == AuditEvent(call.action_type, call.target, call.risk, allowed)
      log == IF call.branch = "default"
             THEN [events |-> events, stats |-> stats]
             ELSE LogEvent(events, stats, max_events, event)
      notify == IF call.branch \in NotifyingBranches
                THEN NotifyCallbacks(confirmation_callbacks, outcomes)
                ELSE [invoked |-> << >>, caught |-> 0, raised |-> FALSE]
  IN  /\ confirmed_actions' = IF memoize THEN Memoize(confirmed_actions, call.action_hash)
                              ELSE confirmed_actions
      /\ approved' = IF memoize
                     THEN approved \cup {<<call.action_type, call.target, call.context>>}
                     ELSE approved
      /\ events' = log.events
      /\ stats' = log.stats
      /\ logged' = IF call.branch = "default" THEN logged ELSE Append(logged, event)
      /\ calls' = [calls EXCEPT ![c] =
                     [call EXCEPT !.pc = IF notify.raised THEN "raised" ELSE "done",
                                  !.allowed = allowed,
                                  !.reason = reason,
                                  !.memoized = memoize,
                                  !.logged = IF call.branch = "default" THEN 0 ELSE 1,
                                  !.notified = notify.invoked,
                                  !.caught = notify.caught,
                                  !.callbacks = IF call.branch \in NotifyingBranches
                                                THEN confirmation_callbacks ELSE << >>,
                                  !.outcomes = IF call.branch \in NotifyingBranches
                                               THEN outcomes ELSE << >>,
                                  !.user_decision = IF call.branch \in NotifyingBranches
                                                    THEN reason ELSE "None",
                                  !.registered = confirmation_callbacks,
                                  !.seen_total = IF call.branch \in NotifyingBranches
                                                 THEN log.stats.total_events ELSE 0]]

\* A variant in which check_action is not entered while a prompt is open
CanEnterExclusive(c) ==
  /\ calls[c].pc \in {"idle", "done", "raised"}
  /\ \A d \in Callers : calls[d].pc # "prompt"

\* check_action is a coroutine function: a caller that is not inside a call may
\* enter one, whatever the other callers are doing
CanEnter(c) == calls[c].pc \in {"idle", "done", "raised"}

\* SecurityLayer.check_action from its entry to its first suspension (the read of
\* the user's answer) or, when nothing is asked, to its return.
CheckAction(c, action_type, target, raw_context, outcomes) ==
  /\ CanEnter(c)
  /\ \E context \in {Analyze(action_type, target, raw_context)} :
     \E hashed \in {GenerateActionHash(action_hash_cache, now, action_type, target, context)} :
     \E evaluated \in {EvaluateRules(rules, action_type, target, context)} :
     \E risk_assessment \in {AssessRisk(action_type, target, context)} :
     \E final \in {Fuse(evaluated.risk, risk_assessment)} :
     \E branch \in {Branch(security_level, action_type, final)} :
     \E call \in {[IdleCall EXCEPT
                    !.pc = "start",
                    !.action_type = action_type, !.target = target,
                    !.raw_context = raw_context, !.context = context,
                    !.action_hash = hashed.hash,
                    !.was_approved = <<action_type, target, context>> \in approved,
                    !.scored = TRUE,
                    !.rule_risk = evaluated.risk, !.assessor_risk = risk_assessment,
                    !.triggered = evaluated.risk.triggered_rules,
                    !.risk = final, !.branch = branch]} :
         /\ action_history' = AddToHistory(action_history,
                                [action_type |-> action_type,
                                 target |-> Truncate(target, 200),
                                 url |-> Get(raw_context, "current_url", "")])
         /\ action_hash_cache' = hashed.cache
         /\ IF hashed.hash \in confirmed_actions
            THEN \* step 3: previously confirmed
                 /\ calls' = [calls EXCEPT ![c] =
                                [call EXCEPT !.pc = "done", !.allowed = TRUE,
                                             !.scored = FALSE,
                                             !.rule_risk = NoAssessment,
                                             !.assessor_risk = NoAssessment,
                                             !.triggered = << >>,
                                             !.risk = MemoAssessment, !.branch = "memo"]]
                 /\ UNCHANGED <<confirmed_actions, approved, events, stats, logged>>
            ELSE IF evaluated.raised
            THEN \* step 4: re.error leaves evaluate_rules and check_action
                 /\ calls' = [calls EXCEPT ![c] =
                                [call EXCEPT !.pc = "raised", !.reason = "re.error",
                                             !.scored = FALSE,
                                             !.rule_risk = NoAssessment,
                                             !.assessor_risk = NoAssessment,
                                             !.triggered = << >>,
                                             !.risk = NoAssessment, !.branch = "None"]]
                 /\ UNCHANGED <<confirmed_actions, approved, events, stats, logged>>
            ELSE IF branch \in GateBranches
            THEN \* request_confirmation
                 IF hashed.hash \in auto_confirm_hashes
                 THEN Finish(c, [call EXCEPT !.gate_calls = 1, !.auto_confirmed = TRUE],
                             TRUE, "previously_confirmed", outcomes)
                 ELSE /\ calls' = [calls EXCEPT ![c] =
                                     [call EXCEPT !.pc = "prompt", !.gate_calls = 1]]
                      /\ UNCHANGED <<confirmed_actions, approved, events, stats, logged>>
            ELSE Finish(c, call, branch # "high_block", "None", outcomes)
  /\ UNCHANGED <<security_level, rules, auto_confirm_hashes, confirmation_callbacks,
                 max_events, now>>

MaxPrompts == 2

\* The user's answer to the prompt of _get_user_decision arrives (or the read fails)
\* and check_action runs on from there: to the next prompt, or to its return.
Answer(c, input, outcomes) ==
  /\ calls[c].pc = "prompt"
  /\ \E decision \in {UserDecision(input)} :
     \E asked \in {[calls[c] EXCEPT
                     !.prompts = @ + 1, !.last_input = input,
                     !.malformed = IF decision.kind = "again" /\ Normalize(input) # "d"
                                   THEN @ + 1 ELSE @]} :
         IF decision.kind = "again"
         THEN /\ asked.prompts < MaxPrompts
              /\ calls' = [calls EXCEPT ![c] = asked]
              /\ UNCHANGED <<confirmed_actions, approved, events, stats, logged>>
         ELSE Finish(c, asked, decision.allowed, decision.reason, outcomes)
  /\ UNCHANGED <<security_level, rules, auto_confirm_hashes, confirmation_callbacks,
                 action_history, max_events, action_hash_cache, now>>

\* ConfirmationRequester.set_auto_confirm
SetAutoConfirm(action_hash) ==
  /\ action_hash \notin auto_confirm_hashes
  /\ auto_confirm_hashes' = auto_confirm_hashes \cup {action_hash}
  /\ UNCHANGED <<security_level, rules, confirmed_actions, confirmation_callbacks,
                 action_history, events, stats, max_events, action_hash_cache, now,
                 calls, logged, approved>>

MaxCallbacks == 2

\* SecurityLayer.register_confirmation_callback
RegisterConfirmationCallback(callback) ==
  /\ Len(confirmation_callbacks) < MaxCallbacks
  /\ confirmation_callbacks' = Append(confirmation_callbacks, callback)
  /\ UNCHANGED <<security_level, rules, confirmed_actions, auto_confirm_hashes,
                 action_history, events, stats, max_events, action_hash_cache, now,
                 calls, logged, approved>>

MaxAddedRules == 2

\* RuleEngine.add_rule
AddRule(rule) ==
  /\ Len(rules) < Len(DefaultRules) + MaxAddedRules
  /\ rules' = Append(rules, rule)
  /\ UNCHANGED <<security_level, confirmed_actions, auto_confirm_hashes,
                 confirmation_callbacks, action_history, events, stats, max_events,
                 action_hash_cache, now, calls, logged, approved>>

MaxLogged == 5

\* AuditLogger.log_event, called on the logger itself
LogEventCall(event) ==
  /\ Len(logged) < MaxLogged
  /\ LET log == LogEvent(events, stats, max_events, event)
     IN  /\ events' = log.events
         /\ stats' = log.stats
  /\ logged' = Append(logged, event)
  /\ UNCHANGED <<security_level, rules, confirmed_actions, auto_confirm_hashes,
                 confirmation_callbacks, action_history, max_events, action_hash_cache,
                 now, calls, approved>>

\* The clock advances between two operations, by these many minutes
ClockSteps == {6}

MaxTime == 12

Tick(minutes) ==
  /\ now + minutes <= MaxTime
  /\ now' = now + minutes
  /\ UNCHANGED <<security_level, rules, confirmed_actions, auto_confirm_hashes,
                 confirmation_callbacks, action_history, events, stats, max_events,
                 action_hash_cache, calls, logged, approved>>

(***************************************************************************)
(* Specifications.                                                         *)
(***************************************************************************)
\* The enforcement levels a SecurityLayer is constructed with: the members of
\* interfaces.SecurityLevel
Levels == {SecurityLevel("interfaces", v) : v \in SecurityLevelValues}

\* AuditLogger.__init__'s default max_events
DefaultMaxEvents == 1000

\* The state after SecurityLayer(level), with the audit logger's capacity cap
Constructed(level, cap) ==
  /\ security_level = level
  /\ rules = DefaultRules
  /\ confirmed_actions = {}
  /\ auto_confirm_hashes = {}
  /\ confirmation_callbacks = << >>
  /\ action_history = << >>
  /\ events = << >>
  /\ stats = InitialStats
  /\ max_events = cap
  /\ action_hash_cache = EmptyDict
  /\ now = 0
  /\ calls = [c \in Callers |-> IdleCall]
  /\ logged = << >>
  /\ approved = {}

Init == \E level \in Levels : Constructed(level, DefaultMaxEvents)

\* An action submitted to check_action
Input(action_type, target, raw_context) ==
  [action_type |-> action_type, target |-> target, raw_context |-> raw_context]

\* The hash generate_action_hash computes for an input (no cache entry)
HashOf(i) == Digest(i.action_type, i.target, Analyze(i.action_type, i.target, i.raw_context))

PasswordInput ==
  Input("type_password", "mypassword123", "current_url" :> "https://example.com/login")

SessionInputs ==
  { Input("click_button", "hello", EmptyDict),
    PasswordInput,
    Input("navigate_suspicious", "http://phishing.tk/a.exe", EmptyDict) }

MaxCalls == 2

Check ==
  \E i \in SessionInputs :
    /\ Len(action_history) < MaxCalls
    /\ CheckAction(1, i.action_type, i.target, i.raw_context, << >>)

Respond == \E input \in Lines \cup InputErrors : Answer(1, input, << >>)

AutoConfirm == SetAutoConfirm(HashOf(PasswordInput))

Next == Check \/ Respond \/ AutoConfirm

Spec == Init /\ [][Next]_vars

\* ---------------------------------------------------------------------------
\* SpecMemo: the approval memo over time.  Two actions that differ only in a
\* context entry the scoring does not read, so that they share a cache key of
\* generate_action_hash, and a clock that passes the cache's time to live.
MemoInputs ==
  { PasswordInput,
    Input("type_password", "mypassword123",
          "current_url" :> "https://example.com/login" @@ "step" :> "retry") }

MemoAnswers == {"y", "a", "n"}

MaxMemoCalls == 3

MemoCheck ==
  \E i \in MemoInputs :
    /\ Len(action_history) < MaxMemoCalls
    /\ CheckAction(1, i.action_type, i.target, i.raw_context, << >>)

MemoRespond == \E input \in MemoAnswers : Answer(1, input, << >>)

MemoTick == \E minutes \in ClockSteps : Tick(minutes)

NextMemo == MemoCheck \/ MemoRespond \/ MemoTick

SpecMemo == Init /\ [][NextMemo]_vars

\* ---------------------------------------------------------------------------
\* SpecAudit: an AuditLogger(max_events) on its own, fed through log_event.
MaxCap == 3

InitAudit == \E cap \in 0..MaxCap : Constructed(SecurityLevel("interfaces", "medium"), cap)

Assessed(score, level) == [NoAssessment EXCEPT !.score = Num(score), !.level = level]

AuditEvents ==
  { AuditEvent("click", "hello", Assessed(10, "low"), TRUE),
    AuditEvent("click", "hello", Assessed(10, "low"), FALSE),
    AuditEvent("type", "user@example.com", Assessed(40, "medium"), TRUE),
    AuditEvent("payment", "checkout", Assessed(70, "high"), FALSE),
    AuditEvent("type_password", "mypassword123", Assessed(100, "critical"), FALSE) }

Log == \E event \in AuditEvents : LogEventCall(event)

NextAudit == Log

SpecAudit == InitAudit /\ [][NextAudit]_vars

\* ---------------------------------------------------------------------------
\* SpecScore: the scoring of one action, over every kind, with rules added at
\* run time.
ScoreTargets == {"hello", "mypassword123", "http://phishing.tk/a.exe", "checkout",
                 "user@example.com"}

ScoreContexts ==
  { EmptyDict,
    "current_url" :> "https://example.com/login",
    "current_url" :> "https://shop.example.com/checkout",
    "contains_passwords" :> TRUE @@ "contains_financial" :> TRUE @@ "is_payment_flow" :> TRUE }

\* Rules a host adds with add_rule: a literal pattern, a condition with a level
\* outside the four names, and a heavy low rule that matches every target
RuntimeRules ==
  { SecurityRule("custom_checkout", "checkout", "None", "medium", FALSE, "None", 10),
    SecurityRule("custom_login_page", "", "None", "severe", FALSE, "is_login_page", 20),
    SecurityRule("custom_any", "re:custom_any", "None", "low", TRUE, "None", 40) }

ScoreAddRule == \E rule \in RuntimeRules : calls[1].pc = "idle" /\ AddRule(rule)

ScoreCheck ==
  \E action_type \in ActionType, target \in ScoreTargets, raw_context \in ScoreContexts :
    /\ calls[1].pc = "idle"
    /\ CheckAction(1, action_type, target, raw_context, << >>)

ScoreRespond == \E input \in {"n"} : Answer(1, input, << >>)

NextScore == ScoreAddRule \/ ScoreCheck \/ ScoreRespond

InitScore == Constructed(SecurityLevel("interfaces", "medium"), DefaultMaxEvents)

SpecScore == InitScore /\ [][NextScore]_vars

\* ---------------------------------------------------------------------------
\* SpecCallbacks: one check_action call with registered callbacks, each of which
\* may fail when awaited.
CallbackNames == {"cb1", "cb2"}

CallbackInputs == {PasswordInput, Input("click_button", "hello", EmptyDict)}

Register == \E callback \in CallbackNames : RegisterConfirmationCallback(callback)

CallbackCheck ==
  \E i \in CallbackInputs, outcomes \in OutcomesOf(confirmation_callbacks) :
    /\ calls[1].pc = "idle"
    /\ CheckAction(1, i.action_type, i.target, i.raw_context, outcomes)

CallbackRespond ==
  \E input \in {"y", "a", "n"}, outcomes \in OutcomesOf(confirmation_callbacks) :
    Answer(1, input, outcomes)

NextCallbacks == Register \/ CallbackCheck \/ CallbackRespond

SpecCallbacks == Init /\ [][NextCallbacks]_vars

\* ---------------------------------------------------------------------------
\* SpecRules: evaluate_rules over rule sets extended at run time, with rules bound
\* to a kind, a rule whose regex does not compile, a rule with a level outside the
\* four names and a rule with neither pattern nor condition.
AddedRules ==
  { SecurityRule("custom_malformed", "re:malformed", "type", "high", TRUE, "None", 10),
    SecurityRule("custom_nav_external", "re:custom_any", "navigate_external", "critical",
                 TRUE, "None", 30),
    SecurityRule("custom_login_page", "", "None", "severe", FALSE, "is_login_page", 20),
    SecurityRule("custom_bare", "", "payment", "critical", FALSE, "None", 30),
    SecurityRule("custom_any", "re:custom_any", "None", "low", TRUE, "None", 40) }

RulesKinds == {"type", "type_password", "click_button", "payment", "navigate",
               "navigate_external"}

RulesTargets == {"hello", "mypassword123", "checkout", "ru:oformit zakaz"}

RulesContexts ==
  { EmptyDict,
    "current_url" :> "https://example.com/login",
    "current_url" :> "https://shop.example.com/checkout",
    "current_url" :> "https://shop.example.com/checkout" @@ "is_login_page" :> TRUE }

RulesAddRule == \E rule \in AddedRules : calls[1].pc = "idle" /\ AddRule(rule)

RulesCheck ==
  \E action_type \in RulesKinds, target \in RulesTargets, raw_context \in RulesContexts :
    /\ calls[1].pc = "idle"
    /\ CheckAction(1, action_type, target, raw_context, << >>)

RulesRespond == \E input \in {"y", "n"} : Answer(1, input, << >>)

NextRules == RulesAddRule \/ RulesCheck \/ RulesRespond

SpecRules == InitScore /\ [][NextRules]_vars

\* ---------------------------------------------------------------------------
\* SpecPair: two navigation actions assessed side by side, in contexts that differ
\* in the flags the caller supplies.
PairTargets == {"https://example.com", "http://phishing.tk/a.exe"}

PairContexts ==
  { EmptyDict,
    "is_https" :> TRUE,
    "contains_passwords" :> TRUE @@ "contains_financial" :> TRUE @@ "is_payment_flow" :> TRUE,
    "is_https" :> TRUE @@ "is_admin_page" :> TRUE @@ "contains_passwords" :> TRUE }

PairCheck ==
  \E c \in Callers, action_type \in NavigationKeys, target \in PairTargets,
     raw_context \in PairContexts :
    /\ calls[c].pc = "idle"
    /\ CheckAction(c, action_type, target, raw_context, << >>)

PairRespond == \E c \in Callers : Answer(c, "n", << >>)

NextPair == PairCheck \/ PairRespond

SpecPair == InitScore /\ [][NextPair]_vars

\* ---------------------------------------------------------------------------
\* SpecSequence: one action checked with a recent history supplied by the caller.
MaxHistory == 3

HistoryKinds == {"type", "type_email", "click"}

RECURSIVE HistoriesOf(_)
HistoriesOf(n) ==
  IF n = 0 THEN {<< >>}
  ELSE LET shorter == HistoriesOf(n - 1)
       IN  shorter \cup {Append(h, [action_type |-> k, target |-> "hello"]) :
                           h \in {x \in shorter : Len(x) = n - 1}, k \in HistoryKinds}

SequenceCheck ==
  \E history \in HistoriesOf(MaxHistory), action_type \in {"click_button", "type_password"} :
    /\ calls[1].pc = "idle"
    /\ CheckAction(1, action_type, "hello", "recent_history" :> history, << >>)

SequenceRespond == \E input \in {"y", "n"} : Answer(1, input, << >>)

NextSequence == SequenceCheck \/ SequenceRespond

SpecSequence == InitScore /\ [][NextSequence]_vars

\* ---------------------------------------------------------------------------
\* SpecDetect: the agent classifies a tool call before it submits the action.
\* Per text, the keyword families of detect_action_type that the lower-cased text
\* matches: click families for a description, typed families for a typed text,
\* navigation marks for a url (Cyrillic transliterated as ru:...).
DetectInfo ==
  "hello" :> [click |-> {},
      typed |-> {},
      nav |-> {}] @@
  "buy now and delete" :> [click |-> {"delete", "payment"},
      typed |-> {},
      nav |-> {}] @@
  "Delete and Submit" :> [click |-> {"delete", "form_submit"},
      typed |-> {},
      nav |-> {}] @@
  "submit comment" :> [click |-> {"form_submit", "social_action"},
      typed |-> {},
      nav |-> {}] @@
  "share and agree to terms" :> [click |-> {"legal_action", "social_action"},
      typed |-> {},
      nav |-> {}] @@
  "agree www.example.com" :> [click |-> {"click_link", "legal_action"},
      typed |-> {},
      nav |-> {}] @@
  "www.example.com" :> [click |-> {"click_link"},
      typed |-> {},
      nav |-> {}] @@
  "mypassword123" :> [click |-> {},
      typed |-> {"type_password"},
      nav |-> {}] @@
  "password user@example.com" :> [click |-> {"click_link"},
      typed |-> {"type_email", "type_password"},
      nav |-> {}] @@
  "user@example.com +79991234567" :> [click |-> {"click_link"},
      typed |-> {"type_email", "type_phone"},
      nav |-> {}] @@
  "89991234567 1234 5678 9012 3456" :> [click |-> {},
      typed |-> {"type_card", "type_phone"},
      nav |-> {}] @@
  "ru:pasport 1234 5678 9012 3456" :> [click |-> {},
      typed |-> {"type_card", "type_personal"},
      nav |-> {}] @@
  "ru:pasport" :> [click |-> {},
      typed |-> {"type_personal"},
      nav |-> {}] @@
  "http://phishing.tk/a.exe" :> [click |-> {"click_link"},
      typed |-> {},
      nav |-> {"http_scheme", "malicious_word"}] @@
  "https://example.com" :> [click |-> {"click_link"},
      typed |-> {},
      nav |-> {}] @@
  "https://example.com/malware.zip" :> [click |-> {"click_link"},
      typed |-> {},
      nav |-> {"malicious_word"}]

DetectTexts == DOMAIN DetectInfo

DetectTools == {"click_element", "type_text", "navigate", "scroll_down",
                "analyze_page", "hover"}

DetectContexts ==
  {EmptyDict, "is_login_page" :> TRUE,
   ("is_login_page" :> TRUE) @@ ("contains_passwords" :> TRUE)}

\* The order of the if/elif chain for click_element
ClickFamilies == <<"payment", "delete", "form_submit", "social_action",
                   "legal_action", "click_link">>

TypeFamiliesCardFirst == <<"type_password", "type_email", "type_card", "type_phone",
                           "type_personal">>

\* The order of the if/elif chain for type_text
TypeFamilies == <<"type_password", "type_email", "type_phone", "type_card",
                  "type_personal">>

\* An if/elif chain over the families: the first one that matches, else the rest
FirstMatching(families, matching, otherwise) ==
  IF \E i \in 1..Len(families) : families[i] \in matching
  THEN families[CHOOSE i \in 1..Len(families) :
                  /\ families[i] \in matching
                  /\ \A j \in 1..(i - 1) : families[j] \notin matching]
  ELSE otherwise

DetectActionType(tool_name, text, context) ==
  IF tool_name = "click_element"
  THEN FirstMatching(ClickFamilies, DetectInfo[text].click, "click_button")
  ELSE IF tool_name = "type_text"
  THEN FirstMatching(TypeFamilies, DetectInfo[text].typed,
                     IF Get(context, "is_login_page", FALSE)
                        /\ Get(context, "contains_passwords", FALSE)
                     THEN "type_password" ELSE "type")
  ELSE IF tool_name = "navigate"
  THEN IF DetectInfo[text].nav # {} THEN "navigate_suspicious" ELSE "navigate"
  ELSE IF tool_name = "scroll_down" THEN "scroll"
  ELSE IF tool_name = "analyze_page" THEN "analyze"
  ELSE "click"

\* _execute_with_security up to the classification: the call holds the detected
\* kind, the text and the snapshot it was classified with.
Detect ==
  \E tool_name \in DetectTools, text \in DetectTexts, context \in DetectContexts :
    /\ calls[1].pc \in {"idle", "classified"}
    /\ calls' = [calls EXCEPT ![1] =
                   [IdleCall EXCEPT !.pc = "classified",
                                    !.action_type = DetectActionType(tool_name, text, context),
                                    !.target = text,
                                    !.raw_context = context @@ ("tool_name" :> tool_name)]]
    /\ UNCHANGED <<security_level, rules, confirmed_actions, auto_confirm_hashes,
                   confirmation_callbacks, action_history, events, stats, max_events,
                   action_hash_cache, now, logged, approved>>

NextDetect == Detect

SpecDetect == InitScore /\ [][NextDetect]_vars

\* ---------------------------------------------------------------------------
\* SpecConcurrent: two callers submit actions to one SecurityLayer; a call
\* suspended at the prompt leaves the other caller free to run.
MaxConcurrentCalls == 3

ConcurrentInputs ==
  { Input("click_button", "hello", EmptyDict),
    PasswordInput,
    Input("navigate_suspicious", "http://phishing.tk/a.exe", EmptyDict) }

InitConcurrent ==
  \E cap \in 1..MaxCap : Constructed(SecurityLevel("interfaces", "medium"), cap)

ConcurrentCheck ==
  \E c \in Callers, i \in ConcurrentInputs :
    /\ Len(action_history) < MaxConcurrentCalls
    /\ CheckAction(c, i.action_type, i.target, i.raw_context, << >>)

ConcurrentRespond == \E c \in Callers, input \in {"y", "a", "n"} : Answer(c, input, << >>)

NextConcurrent == ConcurrentCheck \/ ConcurrentRespond

SpecConcurrent == InitConcurrent /\ [][NextConcurrent]_vars

\* ---------------------------------------------------------------------------
\* SpecCancel: the session of Spec, in which the task awaiting the user's answer
\* may be cancelled.
\* task.cancel() while get_input is awaited: CancelledError is a BaseException, so
\* neither except clause of _get_user_decision takes it and it leaves
\* request_confirmation and check_action; nothing after the await runs.
Cancel(c) ==
  /\ calls[c].pc = "prompt"
  /\ calls' = [calls EXCEPT ![c] = [@ EXCEPT !.pc = "raised", !.reason = "CancelledError"]]
  /\ UNCHANGED <<security_level, rules, confirmed_actions, auto_confirm_hashes,
                 confirmation_callbacks, action_history, events, stats, max_events,
                 action_hash_cache, now, logged, approved>>

Cancellation == Cancel(1)

NextCancel == Check \/ Respond \/ Cancellation

SpecCancel == Init /\ [][NextCancel]_vars

\* ---------------------------------------------------------------------------
\* SpecAgent: the session of Spec on a SecurityLayer constructed with any level
\* value: a member of interfaces.SecurityLevel, or, as AutonomousAgent does with
\* SecurityLayer(config.security_level), a member of config.SecurityLevel.
ConfigLevels == {SecurityLevel("config", v) : v \in SecurityLevelValues}

InitAgent == \E level \in Levels \cup ConfigLevels : Constructed(level, DefaultMaxEvents)

SpecAgent == InitAgent /\ [][Next]_vars

\* ---------------------------------------------------------------------------
\* SpecLevels: the scoring session of SpecScore on a SecurityLayer constructed
\* with each of the three enforcement levels.
SpecLevels == Init /\ [][NextScore]_vars

\* ---------------------------------------------------------------------------
\* SpecCritical: password, card, payment and deletion actions (and a plain click)
\* under every enforcement level, with the context flags that lower the
\* assessor's score the most, and rules added at run time; an action answered
\* with allow-all is submitted again.
CriticalKinds == {"type_password", "type_card", "payment", "delete"}

CriticalContexts ==
  { EmptyDict,
    "current_url" :> "https://example.com/login",
    "is_search_page" :> TRUE @@ "is_trusted_domain" :> TRUE @@ "is_https" :> TRUE
      @@ "confidence_low" :> TRUE }

CriticalAddRule == \E rule \in RuntimeRules : calls[1].pc = "idle" /\ AddRule(rule)

CriticalCheck ==
  \E action_type \in CriticalKinds \cup {"click_button"}, target \in ScoreTargets,
     raw_context \in CriticalContexts :
    /\ \/ calls[1].pc = "idle"
       \/ /\ calls[1].pc = "done" /\ calls[1].memoized
          /\ Len(action_history) < MaxCalls
          /\ action_type = calls[1].action_type
          /\ target = calls[1].target
          /\ raw_context = calls[1].raw_context
    /\ CheckAction(1, action_type, target, raw_context, << >>)

CriticalRespond == \E input \in {"y", "a", "n"} : Answer(1, input, << >>)

NextCritical == CriticalAddRule \/ CriticalCheck \/ CriticalRespond

SpecCritical == Init /\ [][NextCritical]_vars

(***************************************************************************)
(* The claims.                                                             *)
(***************************************************************************)
\* A call that took the scoring path (it was not answered from the memo) and whose
\* fused score is above 20
AboveThreshold(call) ==
  call.pc # "idle" /\ call.branch # "memo" /\ RatGt(call.risk.score, Num(20))

\* The last line read at the prompt of the call is one of the given choices
DecidedBy(call, choices) ==
  call.prompts >= 1 /\ call.last_input \in Lines /\ Normalize(call.last_input) \in choices

\* C1: under the HIGH enforcement level, a non-memoized action whose fused level is
\* high or critical is never put to the confirmation gate: the call returns at
\* once with allowed = false and one blocked event logged.
C1_HighAutoBlocks ==
  \A c \in Callers :
    (/\ calls[c].pc # "idle"
     /\ security_level = SecurityLevel("interfaces", "high")
     /\ calls[c].branch # "memo"
     /\ calls[c].risk.level \in {"high", "critical"})
    => /\ calls[c].gate_calls = 0
       /\ calls[c].pc = "done"
       /\ ~calls[c].allowed
       /\ calls[c].logged = 1
       /\ ~events[Len(events)].confirmed

\* C2, as stated: at every enforcement level, a non-memoized action with fused score
\* above 20 is put to the confirmation gate, and the call allows it only when the
\* user answered y or a at the prompt of that call.
C2_AllowedOnlyOnYesOrAll ==
  \A c \in Callers :
    AboveThreshold(calls[c])
    => /\ calls[c].gate_calls = 1
       /\ (calls[c].pc = "done" /\ calls[c].allowed) => DecidedBy(calls[c], {"y", "a"})

\* C2, amended: a non-memoized action with fused score above 20 is always put to the
\* confirmation gate; the gate allows it without a prompt exactly when its hash was
\* registered with set_auto_confirm, and otherwise the call allows it only when the
\* user answered y or a at the prompt of that call.
C2_GateDecidesAboveThreshold ==
  \A c \in Callers :
    AboveThreshold(calls[c])
    => /\ calls[c].gate_calls = 1
       /\ calls[c].branch = "threshold"
       /\ calls[c].auto_confirmed
            => /\ calls[c].action_hash \in auto_confirm_hashes
               /\ calls[c].prompts = 0
               /\ calls[c].pc = "done" /\ calls[c].allowed
       /\ (~calls[c].auto_confirmed /\ calls[c].pc = "done" /\ calls[c].allowed)
            => DecidedBy(calls[c], {"y", "a"})
       /\ (~calls[c].auto_confirmed /\ calls[c].prompts = 0) => calls[c].pc = "prompt"

\* C2's case: a call above the threshold was allowed on the answer " Y "
C2_Witness ==
  /\ AboveThreshold(calls[1])
  /\ calls[1].pc = "done" /\ calls[1].allowed
  /\ calls[1].last_input = " Y "

\* C3: once an action was answered with allow-all, every later call with the same
\* kind, target, location and context returns allowed = true from the memo: no
\* prompt, no scoring, score 0, level low, triggered rules previously_confirmed.
C3_ApprovedStaysApproved ==
  \A c \in Callers :
    (calls[c].pc # "idle" /\ calls[c].was_approved)
    => /\ calls[c].pc = "done"
       /\ calls[c].branch = "memo"
       /\ calls[c].allowed
       /\ ~calls[c].scored
       /\ calls[c].gate_calls = 0
       /\ calls[c].risk = MemoAssessment

\* C4, as stated: a call in which the read of the answer failed, or in which a
\* malformed answer was given, is not allowed and memoizes nothing.
C4_MalformedNeverAllows ==
  \A c \in Callers :
    (calls[c].pc = "done" /\ (calls[c].malformed > 0 \/ calls[c].last_input \in InputErrors))
    => ~calls[c].allowed /\ ~calls[c].memoized

\* C4, amended: a failed read of the answer resolves the confirmation to not allowed
\* (interrupted or input_error), with nothing memoized; a malformed answer resolves
\* nothing: the prompt is shown again, and the call is decided by a later read,
\* allowed exactly when that answer is y or a.
C4_FailClosedAskAgain ==
  \A c \in Callers :
    /\ (calls[c].pc = "done" /\ calls[c].last_input \in InputErrors)
         => /\ ~calls[c].allowed
            /\ ~calls[c].memoized
            /\ calls[c].action_hash \notin confirmed_actions
            /\ calls[c].reason \in {"interrupted", "input_error"}
    /\ (calls[c].pc = "done" /\ calls[c].last_input \in Lines)
         => /\ Normalize(calls[c].last_input) \in {"y", "a", "n", "q"}
            /\ calls[c].allowed = (Normalize(calls[c].last_input) \in {"y", "a"})
            /\ calls[c].memoized = (Normalize(calls[c].last_input) = "a")
    /\ (calls[c].pc = "prompt" /\ calls[c].prompts > 0)
         => /\ calls[c].last_input \in Lines
            /\ Normalize(calls[c].last_input) \notin {"y", "a", "n", "q"}

\* C4's case: a malformed answer, then a failed read, and the call is blocked
C4_Witness ==
  /\ calls[1].pc = "done"
  /\ calls[1].malformed > 0
  /\ calls[1].last_input = "EOFError"
  /\ ~calls[1].allowed

\* C5: whatever the capacity max_events >= 0, the audit buffer never holds more than
\* max_events events, and it holds the most recently logged ones in log order.
C5_BufferWithinCapacity ==
  /\ Len(events) <= max_events
  /\ events = SubSeq(logged, Len(logged) - Len(events) + 1, Len(logged))

\* C6: the audit counters are cumulative: total_events is the number of events ever
\* logged, each level counter the number of logged events of that level, and
\* blocked_actions and confirmed_actions the numbers of logged events with allowed
\* false and true, evictions included.
C6_CountersCumulative == stats = CountersOf(logged)

\* C6's case: events were evicted from a buffer of positive capacity
C6_Witness ==
  /\ max_events > 0
  /\ Len(events) = max_events
  /\ Len(logged) > Len(events) + 1
  /\ stats.blocked_actions > 0 /\ stats.confirmed_actions > 0

\* C7: the fused score of an action of kind navigate or navigate_external is at most
\* 25, whatever the context.
C7_NavigationAtMost25 ==
  \A c \in Callers :
    (calls[c].pc # "idle" /\ calls[c].action_type \in {"navigate", "navigate_external"})
    => ~RatGt(calls[c].risk.score, Num(25))

\* C7's case: a navigation whose context carries the flags that weigh most
C7_Witness ==
  /\ calls[1].pc # "idle"
  /\ calls[1].action_type = "navigate_external"
  /\ Truthy(calls[1].context, "contains_passwords")
  /\ Truthy(calls[1].context, "contains_financial")
  /\ Truthy(calls[1].context, "is_payment_flow")
  /\ calls[1].scored

\* C8: the assessment of every call has 0 <= score <= 100 and the level its score
\* gives under the thresholds 80, 60 and 30, whatever the rules added at run time.
C8_ScoreRangeAndLevel ==
  \A c \in Callers :
    calls[c].pc # "idle"
    => LET score == calls[c].risk.score
       IN  /\ score.d > 0 /\ score.n >= 0
           /\ score.n <= 100 * score.d
           /\ calls[c].risk.level =
                (IF score.n >= 80 * score.d THEN "critical"
                 ELSE IF score.n >= 60 * score.d THEN "high"
                 ELSE IF score.n >= 30 * score.d THEN "medium"
                 ELSE "low")

\* C8's case: an action scored under two rules added at run time, one triggered
C8_Witness ==
  /\ calls[1].pc # "idle" /\ calls[1].scored
  /\ Len(rules) = Len(DefaultRules) + 2
  /\ \E i \in 1..Len(calls[1].triggered) : calls[1].triggered[i] = "custom_login_page"
  /\ calls[1].risk.level = "medium"

\* C9: the fused score is the larger of the rule score and the assessor score, and
\* the fused level is the level of the strictly larger one, the rule engine's when
\* the two scores are equal.
C9_FusionTakesMaximum ==
  \A c \in Callers :
    (calls[c].pc # "idle" /\ calls[c].scored)
    => LET rule == calls[c].rule_risk
           assessor == calls[c].assessor_risk
           larger(a, b) == a.n * b.d > b.n * a.d
       IN  /\ calls[c].risk.score = (IF larger(assessor.score, rule.score)
                                     THEN assessor.score ELSE rule.score)
           /\ larger(rule.score, assessor.score) => calls[c].risk.level = rule.level
           /\ larger(assessor.score, rule.score) => calls[c].risk.level = assessor.level
           /\ rule.score = assessor.score => calls[c].risk.level = rule.level

\* C9's case: the two scores are equal and not zero
C9_Witness ==
  /\ calls[1].pc # "idle" /\ calls[1].scored
  /\ calls[1].rule_risk.score = calls[1].assessor_risk.score
  /\ calls[1].rule_risk.score.n > 0
  /\ calls[1].rule_risk.triggered_rules # << >>

\* The callbacks of the call all returned or failed with an Exception
OrdinaryOutcomes(call) ==
  \A i \in 1..Len(call.outcomes) : call.outcomes[i] \in {"ok", "Exception"}

\* C10: when a callback fails (it raises an Exception), the callbacks registered
\* after it are still invoked, in registration order, and the call returns the same
\* decision and leaves the same audit event and the same memo as when no callback
\* fails.
C10_CallbackFailureIsolated ==
  \A c \in Callers :
    (/\ calls[c].pc \in {"done", "raised"}
     /\ calls[c].branch \in NotifyingBranches
     /\ OrdinaryOutcomes(calls[c]))
    => /\ calls[c].pc = "done"
       /\ calls[c].notified = calls[c].callbacks
       /\ calls[c].caught =
            Cardinality({i \in 1..Len(calls[c].outcomes) : calls[c].outcomes[i] # "ok"})
       /\ calls[c].allowed = (Normalize(calls[c].last_input) \in {"y", "a"})
       /\ calls[c].logged = 1
       /\ events[Len(events)] = AuditEvent(calls[c].action_type, calls[c].target,
                                           calls[c].risk, calls[c].allowed)
       /\ calls[c].memoized = (Normalize(calls[c].last_input) = "a")
       /\ (calls[c].action_hash \in confirmed_actions) = calls[c].memoized

\* C10's case: the first of two callbacks failed and the second was still invoked
C10_Witness ==
  /\ calls[1].pc = "done"
  /\ Len(calls[1].callbacks) = 2
  /\ calls[1].outcomes = <<"Exception", "ok">>
  /\ calls[1].notified = calls[1].callbacks
  /\ calls[1].memoized

\* C11: a call that consults the confirmation gate, whether the user allows or
\* blocks, awaits every registered callback once per registration, in order, with
\* the event of its decision, after that event was written to the audit log; a call
\* that never consults the gate awaits no callback.  (Callbacks return or raise an
\* Exception.)
C11_CallbacksOncePerGateCall ==
  \A c \in Callers :
    (calls[c].pc \in {"done", "raised"} /\ OrdinaryOutcomes(calls[c]))
    => /\ calls[c].gate_calls = 0 => calls[c].notified = << >>
       /\ calls[c].gate_calls > 0
            => /\ calls[c].pc = "done"
               /\ calls[c].notified = calls[c].registered
               /\ calls[c].user_decision = calls[c].reason
               /\ calls[c].logged = 1
               /\ calls[c].seen_total \in 1..Len(logged)
               /\ logged[calls[c].seen_total] =
                    AuditEvent(calls[c].action_type, calls[c].target, calls[c].risk,
                               calls[c].allowed)

\* C11's case: the user blocked at the prompt and both callbacks were awaited
C11_Witness ==
  /\ calls[1].pc = "done"
  /\ calls[1].gate_calls = 1
  /\ calls[1].reason = "blocked"
  /\ Len(calls[1].notified) = 2
  /\ calls[1].seen_total = 1

\* C12: a call answered from the approval memo bypasses the scoring and appends one
\* audit event that records the action as allowed with the zero-risk assessment of
\* a previously confirmed action.
C12_MemoizedApprovalLogged ==
  \A c \in Callers :
    (calls[c].pc = "done" /\ calls[c].branch = "memo")
    => /\ ~calls[c].scored
       /\ calls[c].logged = 1
       /\ Len(logged) > 0
       /\ logged[Len(logged)] = AuditEvent(calls[c].action_type, calls[c].target,
                                           MemoAssessment, TRUE)

\* The rules whose pattern can be matched
RECURSIVE WellFormed(_)
WellFormed(rule_list) ==
  IF rule_list = << >> THEN << >>
  ELSE (IF Head(rule_list).regex /\ Head(rule_list).pattern \in MalformedPatterns
        THEN << >> ELSE <<Head(rule_list)>>) \o WellFormed(Tail(rule_list))

\* C13: a rule whose pattern is malformed is skipped: the evaluation is not aborted,
\* and the call has the triggered rules and the rule assessment computed from the
\* remaining rules.
C13_MalformedRuleSkipped ==
  \A c \in Callers :
    (calls[c].pc # "idle" /\ calls[c].branch # "memo")
    => /\ calls[c].reason # "re.error"
       /\ calls[c].scored
       /\ calls[c].rule_risk =
            EvaluateRules(WellFormed(rules), calls[c].action_type, calls[c].target,
                          calls[c].context).risk

\* C14: for a TypePassword action with the target "mypassword123" on a login page,
\* the pattern analysis flags contains_passwords, the triggered rules include
\* password_input, the fused level is high or critical, and the confirmation gate
\* is consulted.
C14_PasswordScenario ==
  \A c \in Callers :
    (/\ calls[c].pc # "idle" /\ calls[c].branch # "memo"
     /\ calls[c].action_type = "type_password"
     /\ calls[c].target = "mypassword123"
     /\ Truthy(calls[c].context, "is_login_page"))
    => /\ calls[c].context["pattern_analysis"].context.contains_passwords
       /\ \E i \in 1..Len(calls[c].triggered) : calls[c].triggered[i] = "password_input"
       /\ calls[c].risk.level \in {"high", "critical"}
       /\ calls[c].gate_calls = 1

\* C15: for a Payment action with the target "oformit zakaz" (in Russian) on a
\* payment page, the rules payment_click and context_payment_flow trigger and the
\* fused level is critical.
C15_PaymentScenario ==
  \A c \in Callers :
    (/\ calls[c].pc # "idle" /\ calls[c].scored
     /\ calls[c].action_type = "payment"
     /\ calls[c].target = "ru:oformit zakaz"
     /\ Truthy(calls[c].context, "is_payment_page"))
    => /\ \E i \in 1..Len(calls[c].triggered) : calls[c].triggered[i] = "payment_click"
       /\ \E i \in 1..Len(calls[c].triggered) :
             calls[c].triggered[i] = "context_payment_flow"
       /\ calls[c].risk.level = "critical"

\* C16: for an action of kind navigate or navigate_external, evaluate_rules triggers
\* no rule, whatever rules were added (unbound, bound to the kind, malformed), and
\* returns the score 5 with the level low.
C16_NavigationTriggersNoRule ==
  \A c \in Callers :
    (/\ calls[c].pc # "idle" /\ calls[c].branch # "memo"
     /\ calls[c].action_type \in {"navigate", "navigate_external"})
    => /\ calls[c].scored
       /\ calls[c].triggered = << >>
       /\ calls[c].rule_risk.triggered_rules = << >>
       /\ calls[c].rule_risk.score = Num(5)
       /\ calls[c].rule_risk.level = "low"

\* C16's case: a navigate_external action under a rule bound to that kind and an
\* unbound rule, both matching every target
C16_Witness ==
  /\ calls[1].pc = "done"
  /\ calls[1].action_type = "navigate_external"
  /\ \E i, j \in 1..Len(rules) :
       rules[i].name = "custom_nav_external" /\ rules[j].name = "custom_any"
  /\ calls[1].rule_risk.score = Num(5)

\* The rule of the rule set with this name
RuleNamed(name) == rules[CHOOSE i \in 1..Len(rules) : rules[i].name = name]

\* The names of the rules of the set that satisfy Triggers, in the set's order
NamesWhere(rule_list, Triggers(_)) ==
  LET selected == SelectSeq(rule_list, Triggers)
  IN  [i \in 1..Len(selected) |-> selected[i].name]

\* The score 100 * sum(weight * multiplier) / sum(weight) over the named rules, 0 for
\* none; weights and multipliers in tenths
ScoreOfNames(names) ==
  LET idx == 1..Len(names)
      w(i) == RuleNamed(names[i]).weight
      m(i) == LET level == RuleNamed(names[i]).risk_level
              IN  CASE level = "low" -> 3 [] level = "medium" -> 6 [] level = "high" -> 9
                    [] level = "critical" -> 10 [] OTHER -> 5
  IN  IF Len(names) = 0 THEN [n |-> 0, d |-> 1]
      ELSE [n |-> 10 * SumSeq([i \in idx |-> w(i) * m(i)]),
            d |-> SumSeq([i \in idx |-> w(i)])]

SameRat(a, b) == a.n * b.d = b.n * a.d

\* The call is a scored call of a kind other than navigate and navigate_external
ScoredNonNavigation(call) ==
  /\ call.pc # "idle" /\ call.scored
  /\ call.action_type \notin {"navigate", "navigate_external"}

ScoredNavigation(call) ==
  call.pc # "idle" /\ call.scored /\ call.action_type \in NavigationKeys

\* The two contexts agree on the flags is_suspicious_domain, is_http and is_https and
\* on the confidence
AgreeForNavigation(c1, c2) ==
  /\ \A key \in {"is_suspicious_domain", "is_http", "is_https"} :
       Truthy(c1, key) = Truthy(c2, key)
  /\ Get(c1, "confidence", DefaultConfidence) = Get(c2, "confidence", DefaultConfidence)

\* C18: for the navigation kinds the assessor's score is at most 25, and two actions
\* of the same kind whose contexts agree on is_suspicious_domain, is_http, is_https
\* and the confidence get the same assessor score, however their other flags differ.
C18_NavigationScoreDependsOnThreeFlags ==
  \A c, d \in Callers :
    ScoredNavigation(calls[c])
    => /\ ~RatGt(calls[c].assessor_risk.score, Num(25))
       /\ (/\ ScoredNavigation(calls[d])
           /\ calls[c].action_type = calls[d].action_type
           /\ AgreeForNavigation(calls[c].context, calls[d].context))
          => SameRat(calls[c].assessor_risk.score, calls[d].assessor_risk.score)

\* C18's case: two navigations of one kind whose contexts agree on the three flags
\* and the confidence and differ in contains_passwords
C18_Witness ==
  /\ ScoredNavigation(calls[1]) /\ ScoredNavigation(calls[2])
  /\ calls[1].action_type = calls[2].action_type
  /\ AgreeForNavigation(calls[1].context, calls[2].context)
  /\ Truthy(calls[1].context, "contains_passwords")
  /\ ~Truthy(calls[2].context, "contains_passwords")
  /\ Truthy(calls[1].context, "is_https")
  /\ RatGt(calls[1].assessor_risk.score, Num(0))

\* C19: in every report of get_report, summary.block_rate is summary.blocked_actions
\* divided by summary.total_events of that report (0 when nothing was logged), and
\* summary.total_events is the number of events ever logged.
C19_ReportBlockRate ==
  LET summary == GetReport(events, stats, DefaultLimit).summary
  IN  /\ summary.total_events = Len(logged)
      /\ IF summary.total_events = 0 THEN summary.block_rate = Num(0)
         ELSE summary.block_rate.n * summary.total_events
                = summary.blocked_actions * summary.block_rate.d

\* C20: analyze overwrites no key of the caller: every key of the raw context has
\* the same value in the enriched context.
C20_CallerKeysSurvive ==
  \A c \in Callers :
    calls[c].pc # "idle"
    => \A key \in DOMAIN calls[c].raw_context :
         /\ key \in DOMAIN calls[c].context
         /\ calls[c].context[key] = calls[c].raw_context[key]

\* The kinds of typing actions
TypingKinds == {"type", "type_password", "type_email", "type_phone", "type_card",
                "type_personal"}

\* C21: with a history, the sequence analysis sets is_form_filling exactly when at
\* least 2 of the last 5 history entries are typing-kind actions.
C21_FormFillingFlag ==
  \A c \in Callers :
    (/\ calls[c].pc # "idle"
     /\ "recent_history" \in DOMAIN calls[c].raw_context
     /\ calls[c].raw_context["recent_history"] # << >>)
    => LET history == calls[c].raw_context["recent_history"]
           recent == SubSeq(history, IF Len(history) > 5 THEN Len(history) - 4 ELSE 1,
                            Len(history))
           typing == {i \in 1..Len(recent) : recent[i].action_type \in TypingKinds}
       IN  Truthy(calls[c].context, "is_form_filling") = (Cardinality(typing) >= 2)

\* The first family of the chain that the text matches, or the default when it
\* matches none
FirstOf(families, matching, default) ==
  LET hits == {i \in 1..Len(families) : families[i] \in matching}
  IN  IF hits = {} THEN default
      ELSE families[CHOOSE i \in hits : \A j \in hits : i <= j]

ClickPriority == <<"payment", "delete", "form_submit", "social_action",
                   "legal_action", "click_link">>

TypedPriority == <<"type_password", "type_email", "type_phone", "type_card",
                   "type_personal">>

\* C22 as stated: a click is classified as the first matching click category
\* (default click_button), a typed text as the first matching typed category
\* (default type, whatever the snapshot), an unknown tool as click.
C22_FirstMatchingCategory ==
  \A c \in Callers :
    calls[c].pc = "classified"
    => LET tool_name == calls[c].raw_context["tool_name"]
           info == DetectInfo[calls[c].target]
       IN  /\ tool_name = "click_element"
              => calls[c].action_type = FirstOf(ClickPriority, info.click, "click_button")
           /\ tool_name = "type_text"
              => calls[c].action_type = FirstOf(TypedPriority, info.typed, "type")
           /\ tool_name \notin {"click_element", "type_text", "navigate", "scroll_down",
                                "analyze_page"}
              => calls[c].action_type = "click"

\* C22 amended: as above, except that a typed text matching no typed category is
\* type_password when the snapshot marks a login page that contains passwords,
\* and type otherwise.
C22_FirstMatchingOrLoginFallback ==
  \A c \in Callers :
    calls[c].pc = "classified"
    => LET tool_name == calls[c].raw_context["tool_name"]
           info == DetectInfo[calls[c].target]
           login == /\ Truthy(calls[c].raw_context, "is_login_page")
                    /\ Truthy(calls[c].raw_context, "contains_passwords")
       IN  /\ tool_name = "click_element"
              => calls[c].action_type = FirstOf(ClickPriority, info.click, "click_button")
           /\ tool_name = "type_text"
              => calls[c].action_type =
                   FirstOf(TypedPriority, info.typed,
                           IF login THEN "type_password" ELSE "type")
           /\ tool_name \notin {"click_element", "type_text", "navigate", "scroll_down",
                                "analyze_page"}
              => calls[c].action_type = "click"

\* A typed text matching no category, on a login page with passwords, classified
\* as a password entry
C22_Witness ==
  /\ calls[1].pc = "classified"
  /\ calls[1].raw_context["tool_name"] = "type_text"
  /\ DetectInfo[calls[1].target].typed = {}
  /\ Truthy(calls[1].raw_context, "is_login_page")
  /\ Truthy(calls[1].raw_context, "contains_passwords")
  /\ calls[1].action_type = "type_password"

\* A call of caller d, entered now with a click whose fused score is at most 20,
\* returns in the same step while caller c stays suspended at its prompt
CompletesBeside(c, d) ==
  /\ CheckAction(d, "click_button", "hello", EmptyDict, << >>)
  /\ calls'[d].pc = "done"
  /\ calls'[d].branch # "threshold"
  /\ ~RatGt(calls'[d].risk.score, Num(20))
  /\ calls'[c].pc = "prompt"

\* C23: while a call is suspended waiting for the user's answer, a call of another
\* caller with fused score at most 20 can be entered and runs to its return
\* before the prompt is answered.
C23_LowRiskCallNotBlocked ==
  \A c \in Callers : \A d \in Callers \ {c} :
    (calls[c].pc = "prompt" /\ calls[d].pc # "prompt") => ENABLED CompletesBeside(c, d)

\* C23's case: caller 1 entered first and is still at its prompt; caller 2 entered
\* after it and has returned with its low-risk click allowed and logged
C23_Witness ==
  /\ Len(action_history) = 2
  /\ action_history[1].action_type = "type_password"
  /\ action_history[2].action_type = "click_button"
  /\ calls[1].pc = "prompt" /\ calls[1].action_type = "type_password"
  /\ calls[1].prompts = 0
  /\ calls[2].pc = "done" /\ calls[2].action_type = "click_button"
  /\ calls[2].allowed /\ calls[2].logged = 1
  /\ ~RatGt(calls[2].risk.score, Num(20))

\* C24: under every interleaving of the calls, the counters are the counts over
\* all events logged by all calls, the buffer holds the most recent of them up to
\* its capacity, and the memo holds exactly the hashes of the actions answered
\* with allow-all.
C24_NoLostUpdate ==
  /\ stats = CountersOf(logged)
  /\ events = SubSeq(logged,
                     IF Len(logged) > max_events THEN Len(logged) - max_events + 1 ELSE 1,
                     Len(logged))
  /\ confirmed_actions = {Digest(a[1], a[2], a[3]) : a \in approved}

\* C24's case: caller 1 entered first and was answered last, both calls were
\* answered with allow-all, and the buffer has evicted an event
C24_Witness ==
  /\ Len(action_history) = 2 /\ Len(logged) = 2
  /\ calls[1].pc = "done" /\ calls[2].pc = "done"
  /\ calls[1].action_type # calls[2].action_type
  /\ action_history[1].action_type = calls[1].action_type
  /\ logged[1].action = calls[2].action_type
  /\ logged[2].action = calls[1].action_type
  /\ calls[1].memoized /\ calls[2].memoized
  /\ Cardinality(confirmed_actions) = 2
  /\ Len(events) < Len(logged)

\* C25: a call whose confirmation was cancelled in flight resolves to blocked: it
\* returns allowed = false, it has memoized nothing, and its outcome is recorded
\* as one blocked audit event.
C25_CancelledResolvesBlocked ==
  \A c \in Callers :
    calls[c].reason = "CancelledError"
    => /\ calls[c].pc = "done"
       /\ ~calls[c].allowed
       /\ ~calls[c].memoized
       /\ calls[c].logged = 1
       /\ ~logged[Len(logged)].confirmed

\* C26: the hash check_action obtains from generate_action_hash is the digest of
\* the action's kind, target, location and context, whether or not the cache holds
\* an entry and whatever its age; hence a call is answered from the memo exactly
\* when the digest of its own action is in the memo.
C26_CacheOnlyAvoidsRecomputation ==
  \A c \in Callers :
    calls[c].pc # "idle"
    => /\ calls[c].action_hash =
            Digest(calls[c].action_type, calls[c].target, calls[c].context)
       /\ calls[c].branch = "memo"
            => Digest(calls[c].action_type, calls[c].target, calls[c].context)
                 \in confirmed_actions

\* C27: every call that returns and was not answered from the memo went through
\* the confirmation path or one of the LOW, MEDIUM, HIGH branches, never through
\* the default return, and appended exactly one audit event.
C27_DefaultReturnUnreachable ==
  \A c \in Callers :
    (calls[c].pc = "done" /\ calls[c].branch # "memo")
    => /\ calls[c].branch # "default"
       /\ calls[c].logged = 1

\* C28: what a non-memoized call does is fixed by the action and the answer alone,
\* whatever the enforcement level: above 20 it goes to the confirmation gate and
\* returns the user's decision; at 20 or below the fused level is low, none of the
\* medium_suspicious, high_block, high_medium branches is taken, and the call
\* returns allowed without a prompt; either way it logs the one event of its
\* decision.
C28_OutcomeIndependentOfLevel ==
  \A c \in Callers :
    (calls[c].pc \in {"prompt", "done"} /\ calls[c].branch # "memo")
    => LET call == calls[c]
           risk == Fuse(EvaluateRules(rules, call.action_type, call.target, call.context).risk,
                        AssessRisk(call.action_type, call.target, call.context))
       IN  /\ call.risk = risk
           /\ IF RatGt(risk.score, Num(20))
              THEN /\ call.branch = "threshold"
                   /\ call.gate_calls = 1
                   /\ call.pc = "done"
                        => /\ call.prompts >= 1
                           /\ call.allowed = UserDecision(call.last_input).allowed
              ELSE /\ risk.level = "low"
                   /\ call.branch \notin {"medium_suspicious", "high_block", "high_medium"}
                   /\ call.pc = "done" /\ call.allowed
                   /\ call.gate_calls = 0 /\ call.prompts = 0
           /\ call.pc = "done"
                => /\ call.logged = 1
                   /\ logged[Len(logged)] =
                        AuditEvent(call.action_type, call.target, risk, call.allowed)

\* C28's case: under HIGH, a suspicious navigation with fused score at most 20
\* under a rule added at run time was allowed without a prompt
C28_Witness ==
  /\ security_level = SecurityLevel("interfaces", "high")
  /\ calls[1].pc = "done" /\ calls[1].branch = "high_low"
  /\ calls[1].action_type = "navigate_suspicious"
  /\ Len(rules) > Len(DefaultRules)
  /\ calls[1].allowed /\ calls[1].prompts = 0

C30_AuditDecisionIsAutomatic ==
  /\ \A i \in 1..Len(logged) :
       logged[i].user_decision = (IF logged[i].confirmed THEN "auto_allowed" ELSE "auto_blocked")
  /\ \A i \in 1..Len(events) :
       events[i].user_decision = (IF events[i].confirmed THEN "auto_allowed" ELSE "auto_blocked")
  /\ \A c \in Callers :
       (calls[c].pc \in {"done", "raised"} /\ calls[c].gate_calls > 0)
       => /\ calls[c].user_decision = calls[c].reason
          /\ calls[c].reason \in {"approved", "approved_all", "blocked", "task_aborted",
                                  "interrupted", "input_error", "previously_confirmed"}
          /\ logged[calls[c].seen_total].confirmed = calls[c].allowed
          /\ logged[calls[c].seen_total].user_decision # calls[c].reason

\* C30's case: the user answered y, the callbacks were given "approved", and the
\* audit event of the call says auto_allowed
C30_Witness ==
  /\ calls[1].pc = "done" /\ calls[1].gate_calls = 1
  /\ calls[1].last_input = "y" /\ calls[1].user_decision = "approved"
  /\ calls[1].notified # << >>
  /\ logged[calls[1].seen_total].user_decision = "auto_allowed"
  /\ events[Len(events)].user_decision = "auto_allowed"

====
